---- MODULE Spec2Model ----
(***************************************************************************)
(* Admission, deduplication and priority layer of the nimble miner.        *)
(*   model/lib/blacklist.py   is_request_in_cache, default_blacklist,      *)
(*                            blacklist                                    *)
(*   nimminers/lib/priority.py record_request_timestamps,                  *)
(*                            default_priority, priority                   *)
(*   src/lib/miner.py         Miner.__init__, Miner._predict               *)
(*   model/lib/config.py      the configuration values                     *)
(* Time is in seconds, blocks are chain heights.  A Python call either     *)
(* returns a value or raises; both are kept as the record Return/Raise.    *)
(***************************************************************************)
EXTENDS Integers, Sequences, FiniteSets, TLC

VARIABLES
    config,              \* self.config (read-only after construction)
    megastring,          \* self.megastring: NoSnapshot or a snapshot record
    request_timestamps,  \* self.request_timestamps: hotkey -> list of times
    request_cache,       \* self.request_cache: fingerprint -> block
    now,                 \* the reading of time.time()
    last,                \* the last completed call: operation, input, outcome
    seen,                \* history: fingerprint -> blocks of its recorded misses
    pc,                  \* concurrent callers: position of each coroutine
    lock,                \* self.lock: holder of the asyncio.Lock, or NoHolder
    local,               \* concurrent callers: locals of each coroutine
    journal,             \* history: per hotkey, the times of the requests
                         \* admitted and of the timestamps recorded
    miner,               \* self.should_exit, self.is_running, self.thread,
                         \* self.last_epoch_block
    threads,             \* the threads running run(self): position, locals
    chain,               \* the block height of the chain
    stream               \* StreamingTemplateMiner.prompt._prompt: position,
                         \* locals and the messages passed to send

vars == <<config, megastring, request_timestamps, request_cache, now, last,
          seen, pc, lock, local, journal, miner, threads, chain,
          stream>>

----------------------------------------------------------------------------
(* Bounds of the model *)

\* number of clock advances explored
MaxTicks == 2
\* highest chain block explored
MaxBlock == 3
\* number of requests of one caller that are followed
MaxServed == 12
\* number of concurrent is_request_in_cache calls
MaxCallers == 2
\* highest chain block reached while calls are in flight
MaxConcBlock == 1
\* number of background threads started
MaxThreads == 2

(* Values *)

Hotkeys == {"hk1", "hk2"}

\* seconds per clock advance, and the first clock reading (time.time() is
\* far above every configured window)
TickSeconds == 30
StartTime == 90

\* seconds per minute: min_request_period * 60, time_stake_multiplicate * 60
SecondsPerMinute == 60

\* the scorer's fixed look-back: request_timestamps[hotkey][-10]
LookBack == 10

\* self.megastring is None: default_blacklist (blacklist.py line 70) and
\* default_priority test for it, so it is a value the object may hold
NoSnapshot == [present |-> FALSE, block |-> 0, hotkeys |-> <<>>,
               S |-> <<>>, validator_permit |-> <<>>]

HotkeyLists == {<<"hk1">>, <<"hk2", "hk1">>}
Stakes == {1, 3}

SnapshotsAt(b) ==
    UNION {{[present |-> TRUE, block |-> b, hotkeys |-> hs, S |-> s,
             validator_permit |-> p] :
               s \in [1..Len(hs) -> Stakes], p \in [1..Len(hs) -> BOOLEAN]} :
           hs \in HotkeyLists}

WhitelistChoices == {{}, {"hk1"}}
BlacklistChoices == {{}, {"hk1"}, {"hk1", "hk2"}}
\* scaled-down option values; the shipped defaults are 50 timestamps,
\* a span of 7200 blocks, a period of 5 minutes and a multiplier of 10
HistLens == {1, 2}
BlockSpans == {0, 1}
\* history lengths for served requests: below the scorer's look-back of 10
\* and equal to it
ServeHistLens == {1, 2, 10}
\* history lengths for scored requests: none, below, at and above the
\* look-back
ScoreHistLens == {0, 2, 10, 11}
\* miner.priority.default, a float option
PriorityDefaults == {-1, 0, 2}
\* miner.priority.time_stake_multiplicate, in minutes
TimeStakeChoices == {1, 2}

Configs ==
    [whitelist : WhitelistChoices,
     blacklist : BlacklistChoices,
     force_validator_permit : BOOLEAN,
     allow_non_registered : BOOLEAN,
     min_request_period : {1},
     request_cache_block_span : BlockSpans,
     use_request_cache : BOOLEAN,
     priority_default : PriorityDefaults,
     time_stake_multiplicate : TimeStakeChoices,
     len_request_timestamps : HistLens \cup ServeHistLens \cup ScoreHistLens,
     wandb_on : BOOLEAN]

----------------------------------------------------------------------------
(* Python values and call outcomes *)

\* a Python string: its text and, for the formatted rate-limit reason, the
\* values formatted into it (hotkey, len(history), min_request_period)
Reason(text) == [text |-> text, hotkey |-> "", count |-> 0, minutes |-> 0]
RateReason(hk, count, minutes) ==
    [text |-> "request frequency exceeded", hotkey |-> hk, count |-> count,
     minutes |-> minutes]

\* a Python value: its type, and its value in the field of that type; items
\* are what unpacking it yields (the elements of a tuple, the characters of
\* a string)
PyNone == [t |-> "NoneType", b |-> FALSE, n |-> 0, s |-> Reason(""),
           items |-> <<>>]
PyBool(b) == [t |-> "bool", b |-> b, n |-> 0, s |-> Reason(""), items |-> <<>>]
PyInt(n) == [t |-> "int", b |-> FALSE, n |-> n, s |-> Reason(""), items |-> <<>>]
PyText(r) == [t |-> "str", b |-> FALSE, n |-> 0, s |-> r, items |-> <<>>]
PyStr(text) == PyText(Reason(text))
PyChars(text, chars) ==
    [t |-> "str", b |-> FALSE, n |-> 0, s |-> Reason(text),
     items |-> [i \in 1..Len(chars) |-> PyStr(chars[i])]]
PyTuple(items) ==
    [t |-> "tuple", b |-> FALSE, n |-> 0, s |-> Reason(""), items |-> items]

\* the outcome of calling a function: it returns a value or raises
Return(v) == [kind |-> "return", exc |-> "", value |-> v]
Raise(e) == [kind |-> "raise", exc |-> e, value |-> PyNone]

\* a (does_blacklist, reason) pair as default_blacklist returns it
Decision(reject, reason) == [reject |-> reject, reason |-> reason]

----------------------------------------------------------------------------
(* model/lib/blacklist.py: default_blacklist *)

\* hotkey in self.megastring.hotkeys
InHotkeys(m, hk) == \E i \in 1..Len(m.hotkeys) : m.hotkeys[i] = hk

\* self.megastring.hotkeys.index(hotkey): the first position, as a 1-based uid
IndexOf(m, hk) ==
    CHOOSE i \in 1..Len(m.hotkeys) :
        /\ m.hotkeys[i] = hk
        /\ \A j \in 1..(i - 1) : m.hotkeys[j] # hk

\* line 60: the whitelist test
IsWhitelistedBlacklistFirst(cfg, hk) ==
    hk \in cfg.whitelist /\ hk \notin cfg.blacklist

IsWhitelisted(cfg, hk) == hk \in cfg.whitelist

\* line 64: the blacklist test
IsBlacklistedIfRegistrationChecked(cfg, hk) ==
    hk \in cfg.blacklist /\ ~cfg.allow_non_registered

IsBlacklisted(cfg, hk) == hk \in cfg.blacklist

\* lines 68-72: the registration test
NotRegisteredUnlessPermit(cfg, m, hk) ==
    /\ ~cfg.allow_non_registered
    /\ ~cfg.force_validator_permit
    /\ m.present
    /\ ~InHotkeys(m, hk)

NotRegistered(cfg, m, hk) ==
    /\ ~cfg.allow_non_registered
    /\ m.present
    /\ ~InHotkeys(m, hk)

\* lines 78-79: the permit test at the caller's uid
LacksPermitOfFirstUid(m, hk) == ~m.validator_permit[1]

LacksPermit(m, hk) == ~m.validator_permit[IndexOf(m, hk)]

\* lines 85-87: the request-period test on the oldest kept timestamp
RateLimitedOnNewest(cfg, ts, t, hk) ==
    /\ hk \in DOMAIN ts
    /\ t - ts[hk][Len(ts[hk])] < cfg.min_request_period * SecondsPerMinute

RateLimited(cfg, ts, t, hk) ==
    /\ hk \in DOMAIN ts
    /\ t - ts[hk][1] < cfg.min_request_period * SecondsPerMinute

\* the outcome of default_blacklist(self, nucleon) for caller hk at time t:
\* [kind, exc, decision]
default_blacklist(cfg, m, ts, t, hk) ==
    LET ok(d) == [kind |-> "return", exc |-> "", decision |-> d]
        err(e) == [kind |-> "raise", exc |-> e,
                   decision |-> Decision(FALSE, Reason(""))]
        rate ==
            IF RateLimited(cfg, ts, t, hk)
            THEN ok(Decision(TRUE, RateReason(hk, Len(ts[hk]),
                                              cfg.min_request_period)))
            ELSE ok(Decision(FALSE, Reason("passed blacklist")))
    IN  IF IsWhitelisted(cfg, hk)
        THEN ok(Decision(FALSE, Reason("whitelisted hotkey")))
        ELSE IF IsBlacklisted(cfg, hk)
        THEN ok(Decision(TRUE, Reason("blacklisted hotkey")))
        ELSE IF NotRegistered(cfg, m, hk)
        THEN ok(Decision(TRUE, Reason("hotkey not registered")))
        ELSE IF cfg.force_validator_permit
        THEN IF ~m.present
             THEN err("AttributeError")   \* None has no attribute hotkeys
             ELSE IF InHotkeys(m, hk)
             THEN IF LacksPermit(m, hk)
                  THEN ok(Decision(TRUE, Reason("validator permit required")))
                  ELSE rate
             ELSE ok(Decision(TRUE,
                     Reason("validator permit required, but hotkey not registered")))
        ELSE rate

----------------------------------------------------------------------------
(* nimminers/lib/priority.py: record_request_timestamps, default_priority *)

\* a list of n zeros: [0] * n
Zeros(n) == [i \in 1..n |-> 0]

\* a truncation that keeps the oldest n entries: xs[:n]
FirstN(xs, n) ==
    IF n >= Len(xs) THEN xs ELSE SubSeq(xs, 1, n)

\* the Python slice xs[-n:] for n >= 0 (xs[-0:] is the whole list)
LastN(xs, n) ==
    IF n = 0 \/ n >= Len(xs) THEN xs
    ELSE SubSeq(xs, Len(xs) - n + 1, Len(xs))

\* a record that creates an empty history instead of one of zeros
RecordWithoutSentinels(cfg, ts, t, hk) ==
    LET timestamp_length == cfg.len_request_timestamps
        base == IF hk \in DOMAIN ts THEN ts[hk] ELSE <<>>
        kept == LastN(Append(base, t), timestamp_length)
    IN  [k \in (DOMAIN ts) \cup {hk} |-> IF k = hk THEN kept ELSE ts[k]]

\* a record that appends the time to the history of every caller
RecordForEveryCaller(cfg, ts, t, hk) ==
    LET timestamp_length == cfg.len_request_timestamps
        base(k) == IF k \in DOMAIN ts THEN ts[k] ELSE Zeros(timestamp_length)
    IN  [k \in (DOMAIN ts) \cup {hk} |->
            LastN(Append(base(k), t), timestamp_length)]

\* self.request_timestamps after record_request_timestamps(self, nucleon)
record_request_timestamps(cfg, ts, t, hk) ==
    LET timestamp_length == cfg.len_request_timestamps
        base == IF hk \in DOMAIN ts THEN ts[hk] ELSE Zeros(timestamp_length)
        kept == LastN(Append(base, t), timestamp_length)
    IN  [k \in (DOMAIN ts) \cup {hk} |-> IF k = hk THEN kept ELSE ts[k]]

\* a priority is the float num / den, den > 0
Rat(num, den) == [num |-> num, den |-> den]

\* line 58: max(period_scale, 1)
Min(a, b) == IF a <= b THEN a ELSE b

Max(a, b) == IF a >= b THEN a ELSE b

\* lines 46 and 61: self.config.miner.priority.default
ZeroPriority(cfg) == Rat(0, 1)

DefaultValue(cfg) == Rat(cfg.priority_default, 1)

\* the outcome of default_priority(self, nucleon) for caller hk at time t:
\* [kind, exc, priority, timestamps, recorded], timestamps being the tracker
\* afterwards and recorded whether record_request_timestamps was called
default_priority(cfg, m, ts, t, hk) ==
    LET out(k, e, p, ts2) ==
            [kind |-> k, exc |-> e, priority |-> p, timestamps |-> ts2,
             recorded |-> FALSE]
        rec(p) ==
            [kind |-> "return", exc |-> "", priority |-> p,
             timestamps |-> record_request_timestamps(cfg, ts, t, hk),
             recorded |-> TRUE]
        registered == m.present /\ InHotkeys(m, hk)
        stake_amount == m.S[IndexOf(m, hk)]
        den == cfg.time_stake_multiplicate * SecondsPerMinute
        period == t - ts[hk][Len(ts[hk]) - LookBack + 1]
    IN  IF ~registered
        THEN out("return", "", DefaultValue(cfg), ts)
        ELSE IF hk \in DOMAIN ts
        THEN IF Len(ts[hk]) < LookBack
             THEN out("raise", "IndexError", Rat(0, 1), ts)
             ELSE IF den = 0
             THEN out("raise", "ZeroDivisionError", Rat(0, 1), ts)
             ELSE rec(Rat(Max(period, den) * stake_amount, den))
        ELSE rec(DefaultValue(cfg))

----------------------------------------------------------------------------
(* Override dispatch: blacklist.py blacklist, priority.py priority *)

\* hasattr(v, "__len__")
HasLen(v) == v.t \in {"str", "tuple"}

\* bool(v), as an if statement takes it
Truthy(v) ==
    CASE v.t = "bool" -> v.b
      [] v.t = "int" -> v.n # 0
      [] v.t = "str" -> v.s.text # ""
      [] v.t = "tuple" -> Len(v.items) > 0
      [] OTHER -> FALSE

\* the exception float(v) raises, "" when it returns
FloatError(v) ==
    CASE v.t \in {"bool", "int"} -> ""
      [] v.t = "str" -> "ValueError"
      [] OTHER -> "TypeError"

\* v == None
IsNone(v) == v.t = "NoneType"

\* lines 107-114: the try block. exc is the exception raised in it.
BlacklistTry(f) ==
    IF f.kind = "raise"
    THEN [exc |-> f.exc, does_blacklist |-> PyNone, reason |-> PyNone]
    ELSE IF HasLen(f.value)
    THEN IF Len(f.value.items) = 2
         THEN [exc |-> "", does_blacklist |-> f.value.items[1],
               reason |-> f.value.items[2]]
         ELSE [exc |-> "ValueError", does_blacklist |-> PyNone,
               reason |-> PyNone]
    ELSE [exc |-> "", does_blacklist |-> f.value,
          reason |-> PyStr("no reason provided")]

\* the outcome of blacklist(self, func, nucleon): f is what func(nucleon)
\* does, sink_fails whether wandb.log raises when it is called.  defaults
\* counts the evaluations of default_blacklist, reported tells whether
\* wandb.log was called.
blacklist(cfg, m, ts, t, hk, f, sink_fails) ==
    LET d == default_blacklist(cfg, m, ts, t, hk)
        out(k, e, db, r, n, rep) ==
            [kind |-> k, exc |-> e, does_blacklist |-> db, reason |-> r,
             defaults |-> n, reported |-> rep]
        try == BlacklistTry(f)
        \* lines 116-123: both handlers evaluate default_blacklist
        handled ==
            IF try.exc = "" THEN [try EXCEPT !.exc = ""] @@ [defaults |-> 0]
            ELSE IF d.kind = "return"
            THEN [exc |-> "", does_blacklist |-> PyBool(d.decision.reject),
                  reason |-> PyText(d.decision.reason), defaults |-> 1]
            ELSE [exc |-> d.exc, does_blacklist |-> PyNone,
                  reason |-> PyNone, defaults |-> 1]
        \* lines 127-128
        refill == IsNone(handled.does_blacklist)
        n == handled.defaults + (IF refill THEN 1 ELSE 0)
        db == IF refill THEN PyBool(d.decision.reject)
              ELSE handled.does_blacklist
        r == IF refill THEN PyText(d.decision.reason) ELSE handled.reason
    IN  IF refill /\ d.kind = "raise"
        THEN out("raise", d.exc, PyNone, PyNone, n, FALSE)
        \* lines 132-139
        ELSE IF Truthy(db) /\ cfg.wandb_on
        THEN IF FloatError(db) # ""
             THEN out("raise", FloatError(db), PyNone, PyNone, n, FALSE)
             ELSE IF sink_fails
             THEN out("raise", "wandb.Error", PyNone, PyNone, n, TRUE)
             ELSE out("return", "", db, r, n, TRUE)
        \* line 140: the return in the finally block drops a pending exception
        ELSE out("return", "", db, r, n, FALSE)

\* the timestamp t, n times
Times(t, n) == [i \in 1..n |-> t]

\* priority(self, func, nucleon) evaluated step by step: f is what
\* func(nucleon) does, refill_always tells whether the finally clause
\* evaluates default_priority whatever the try block left. custom tells
\* whether the returned value is func's; priority is the value of
\* default_priority otherwise; defaults is the number of default_priority
\* evaluations, timestamps the tracker afterwards and recorded the number of
\* record_request_timestamps calls made on the way.
PriorityDispatch(cfg, m, ts, t, hk, f, refill_always) ==
    LET custom == f.kind = "return" /\ ~IsNone(f.value)
        \* line 75
        handled == f.kind = "raise" /\ f.exc = "NotImplementedError"
        \* line 77
        first == default_priority(cfg, m, ts, t, hk)
        set77 == handled /\ first.kind = "return"
        ts85 == IF handled THEN first.timestamps ELSE ts
        \* line 85
        refill == refill_always \/ ~(custom \/ set77)
        \* line 86
        second == default_priority(cfg, m, ts85, t, hk)
    IN  [kind |-> IF refill THEN second.kind ELSE "return",
         exc |-> IF refill THEN second.exc ELSE "",
         custom |-> custom /\ ~refill,
         result |-> IF custom /\ ~refill THEN f.value ELSE PyNone,
         priority |-> IF refill THEN second.priority
                      ELSE IF set77 THEN first.priority ELSE Rat(0, 1),
         defaults |-> (IF handled THEN 1 ELSE 0) + (IF refill THEN 1 ELSE 0),
         timestamps |-> IF refill THEN second.timestamps ELSE ts85,
         recorded |-> (IF handled /\ first.recorded THEN 1 ELSE 0)
                      + (IF refill /\ second.recorded THEN 1 ELSE 0)]

\* a dispatch whose finally clause scores the request again although the
\* try block already produced a priority
PriorityRefillsAlways(cfg, m, ts, t, hk, f) ==
    PriorityDispatch(cfg, m, ts, t, hk, f, TRUE)

\* the outcome of priority(self, func, nucleon): line 86 is reached only
\* when priority is still None at line 85
priority(cfg, m, ts, t, hk, f) ==
    PriorityDispatch(cfg, m, ts, t, hk, f, FALSE)

\* what a custom blacklist function may do
BlacklistFuncs ==
    [not_implemented |-> Raise("NotImplementedError"),
     raises |-> Raise("RuntimeError"),
     none |-> Return(PyNone),
     bool_true |-> Return(PyBool(TRUE)),
     bool_false |-> Return(PyBool(FALSE)),
     pair_true |-> Return(PyTuple(<<PyBool(TRUE), PyStr("custom")>>)),
     pair_false |-> Return(PyTuple(<<PyBool(FALSE), PyStr("custom")>>)),
     pair_none |-> Return(PyTuple(<<PyNone, PyStr("custom")>>)),
     int |-> Return(PyInt(7)),
     triple |-> Return(PyTuple(<<PyBool(TRUE), PyStr("custom"), PyStr("extra")>>)),
     two_chars |-> Return(PyChars("ab", <<"a", "b">>))]

\* what a custom priority function may do
PriorityFuncs ==
    [not_implemented |-> Raise("NotImplementedError"),
     raises |-> Raise("RuntimeError"),
     none |-> Return(PyNone),
     number |-> Return(PyInt(5))]

----------------------------------------------------------------------------
(* model/lib/blacklist.py: is_request_in_cache; src/lib/miner.py: _predict *)

Messages == {"m1", "m2"}
Payloads == {<<"m1">>, <<"m2">>, <<"m1", "m2">>}

\* a request: nucleon.boson.hotkey, nucleon.roles, nucleon.messages
RoleLists == {<<"user">>, <<"system">>, <<"user", "system">>}
Requests ==
    {r \in [hotkey : Hotkeys, roles : RoleLists, messages : Payloads] :
        Len(r.roles) = Len(r.messages)}

\* json.dumps(list(nucleon.messages)): the messages in order, each as its
\* code; a role or the caller is not part of it
MessageCode(msg) == IF msg = "m1" THEN 1 ELSE 2
JsonDumps(messages) == [i \in 1..Len(messages) |-> MessageCode(messages[i])]

\* hashlib.sha256(...).hexdigest(): a number that differs for different
\* serialisations (no collision among the payloads explored)
RECURSIVE Sha256(_)
Sha256(codes) ==
    IF codes = <<>> THEN 0 ELSE Head(codes) + 3 * Sha256(Tail(codes))

\* lines 30-31: request_key
RequestKey(nucleon) == Sha256(JsonDumps(nucleon.messages))

\* lines 46-49: the test of the sanitising loop
ExpiredAtSpan(cfg, block, current_block) ==
    block + cfg.request_cache_block_span <= current_block

ExpiredOneLate(cfg, block, current_block) ==
    block + cfg.request_cache_block_span + 1 < current_block

Expired(cfg, block, current_block) ==
    block + cfg.request_cache_block_span < current_block

\* an insertion that also stamps a cached fingerprint with the current block
CheckAndRefresh(cache, request_key, current_block) ==
    [k \in (DOMAIN cache) \cup {request_key} |->
        IF k = request_key THEN current_block ELSE cache[k]]

\* lines 36-41: the cache after the membership test and the insertion
CheckAndInsert(cache, request_key, current_block) ==
    IF request_key \in DOMAIN cache THEN cache
    ELSE [k \in (DOMAIN cache) \cup {request_key} |->
             IF k = request_key THEN current_block ELSE cache[k]]

\* lines 44-53: the cache after the sanitising loops
Sanitize(cfg, cache, current_block) ==
    LET keys_to_remove ==
            {k \in DOMAIN cache : Expired(cfg, cache[k], current_block)}
    IN  [k \in (DOMAIN cache) \ keys_to_remove |-> cache[k]]

\* the outcome of awaiting is_request_in_cache(self, nucleon):
\* [kind, exc, should_blacklist, cache], cache being self.request_cache
\* afterwards
is_request_in_cache(cfg, m, cache, nucleon) ==
    LET request_key == RequestKey(nucleon)
        current_block == m.block
    IN  IF ~m.present
        THEN [kind |-> "raise", exc |-> "AttributeError",
              should_blacklist |-> FALSE, cache |-> cache]
        ELSE [kind |-> "return", exc |-> "",
              should_blacklist |-> request_key \in DOMAIN cache,
              cache |-> Sanitize(cfg,
                                 CheckAndInsert(cache, request_key,
                                                current_block),
                                 current_block)]

\* lines 192-197 of miner.py.  _predict is not a coroutine and calls
\* is_request_in_cache without awaiting it: the call returns a coroutine
\* object, which is true in an if statement, and the body of
\* is_request_in_cache does not run.  p is what self.predict(nucleon) does.
predict_wrapper(cfg, cache, nucleon, p) ==
    IF cfg.use_request_cache
    THEN [kind |-> "raise", exc |-> "ValueError", predicted |-> FALSE,
          cache |-> cache]
    ELSE [kind |-> p.kind, exc |-> p.exc, predicted |-> TRUE, cache |-> cache]

\* what the subclass predict may do
PredictOutcomes == {Return(PyStr("completion")), Raise("RuntimeError")}

----------------------------------------------------------------------------
(* The record of the last completed call *)

NoDecision == Decision(FALSE, Reason(""))

NoTimestamps == [k \in {} |-> <<>>]

NoCall ==
    [op |-> "none", hotkey |-> "", func |-> "", kind |-> "", exc |-> "",
     decision |-> NoDecision, result |-> PyNone, priority |-> Rat(0, 1),
     defaults |-> 0, reported |-> FALSE, sink_fails |-> FALSE, key |-> 0,
     block |-> 0, dup |-> FALSE, prev |-> -1, was_cached |-> FALSE,
     predicted |-> FALSE,
     \* the caller's history before the call, and whether it had one
     had_history |-> FALSE, before |-> <<>>,
     \* the number of timestamps recorded for the caller before the call,
     \* whether the request was admitted, how its scoring ended
     nrecorded |-> 0, admitted |-> FALSE, score_kind |-> "",
     \* the whole tracker before the call
     tracker |-> NoTimestamps,
     \* the request of a dedup check
     nucleon |-> [hotkey |-> "", roles |-> <<>>, messages |-> <<>>],
     \* the snapshots self.megastring held while the call ran
     during |-> {}]

----------------------------------------------------------------------------
(* Sequential specification of the default policies: Spec *)

NoCache == [k \in {} |-> 0]
\* the locals of one is_request_in_cache call
NoLocal ==
    [nucleon |-> [hotkey |-> "", roles |-> <<>>, messages |-> <<>>],
     request_key |-> 0, current_block |-> 0, should_blacklist |-> FALSE,
     \* history: what the call, run alone from the state it found, would
     \* return and leave as the cache
     alone_dup |-> FALSE, alone_cache |-> NoCache,
     \* priority.py: the length of the history read at line 54 (-1: none
     \* read) and the slice computed at lines 31-33
     observed |-> -1, kept |-> <<>>,
     \* the uid and the stake read at priority.py lines 49-50 or
     \* blacklist.py line 78, and the snapshots self.megastring held while
     \* the call ran
     uid |-> 0, stake_amount |-> 0, during |-> {}]
NoHolder == 0
NoJournal == [accepted |-> [hk \in Hotkeys |-> <<>>],
              recorded |-> [hk \in Hotkeys |-> <<>>],
              \* fingerprint -> the request whose call inserted it
              inserted |-> [k \in {} |-> <<>>]]

\* the runner fields of a miner after __init__ (miner.py lines 133-135);
\* thread is 0 for None; joining tells that stop_run_thread is inside
\* self.thread.join(5)
NoMiner ==
    [should_exit |-> FALSE, is_running |-> FALSE, thread |-> 0,
     last_epoch_block |-> 0, joining |-> FALSE]

\* a thread that has not been started: the position in run(self), its
\* locals current_block, megastring and step, and as history whether it has
\* read should_exit as True, whether it raised, and whether it fetched a
\* snapshot or set weights after reading should_exit as True
NoThread ==
    [pc |-> "unborn", current_block |-> 0, megastring |-> NoSnapshot,
     step |-> 0, saw_exit |-> FALSE, failed |-> FALSE,
     worked_after_exit |-> FALSE]

\* no streaming response in progress: the position of _prompt, its locals
\* input_ids and buffer, the index of the next token of the loop, the
\* messages passed to send and the exception raised
NoStream ==
    [pc |-> "idle", input_ids |-> <<>>, next |-> 1, buffer |-> <<>>,
     sent |-> <<>>, exc |-> "none"]

Quiet ==
    /\ stream = NoStream
    /\ miner = NoMiner
    /\ threads = [t \in 1..MaxThreads |-> NoThread]
    /\ chain = 0
    /\ journal = NoJournal
    /\ request_cache = NoCache
    /\ seen = NoCache
    /\ pc = [c \in 1..MaxCallers |-> "idle"]
    /\ lock = NoHolder
    /\ local = [c \in 1..MaxCallers |-> NoLocal]

Init ==
    /\ config \in {c \in Configs : /\ ~c.use_request_cache
                                   /\ ~c.wandb_on
                                   /\ c.request_cache_block_span = 0
                                   /\ c.priority_default = 0
                                   /\ c.time_stake_multiplicate = 1
                                   /\ c.len_request_timestamps \in HistLens}
    /\ megastring \in {NoSnapshot} \cup SnapshotsAt(0)
    /\ request_timestamps = NoTimestamps
    /\ now = StartTime
    /\ last = NoCall
    /\ Quiet

\* time.time() advances between calls; last describes a call only while the
\* state is the one that call left
Tick ==
    /\ now < StartTime + MaxTicks * TickSeconds
    /\ now' = now + TickSeconds
    /\ last' = NoCall
    /\ UNCHANGED <<journal, config, megastring, request_timestamps, request_cache,
                   seen, pc, lock, local,
                   miner, threads, chain, stream>>

\* one call of default_blacklist(self, nucleon), nucleon.boson.hotkey = hk
DefaultBlacklist(hk) ==
    \E r \in {default_blacklist(config, megastring, request_timestamps, now,
                                hk)} :
        /\ last' = [NoCall EXCEPT !.op = "default_blacklist", !.hotkey = hk,
                                  !.kind = r.kind, !.exc = r.exc,
                                  !.decision = r.decision]
        /\ UNCHANGED <<journal, config, megastring, request_timestamps, request_cache,
                       now, seen, pc, lock, local,
                       miner, threads, chain, stream>>

\* one call of default_priority(self, nucleon), nucleon.boson.hotkey = hk
DefaultPriority(hk) ==
    \E r \in {default_priority(config, megastring, request_timestamps, now,
                               hk)} :
        /\ Len(journal.recorded[hk]) < MaxServed
        /\ request_timestamps' = r.timestamps
        /\ journal' = IF r.recorded
                      THEN [journal EXCEPT !.recorded[hk] = Append(@, now)]
                      ELSE journal
        /\ last' = [NoCall EXCEPT !.op = "default_priority", !.hotkey = hk,
                                  !.kind = r.kind, !.exc = r.exc,
                                  !.priority = r.priority,
                                  !.had_history =
                                      hk \in DOMAIN request_timestamps,
                                  !.before =
                                      IF hk \in DOMAIN request_timestamps
                                      THEN request_timestamps[hk] ELSE <<>>,
                                  !.nrecorded = Len(journal.recorded[hk]),
                                  !.tracker = request_timestamps]
        /\ UNCHANGED <<config, megastring, request_cache, now, seen, pc, lock,
                       local,
                       miner, threads, chain, stream>>

Next ==
    \/ Tick
    \/ \E hk \in Hotkeys : DefaultBlacklist(hk)
    \/ \E hk \in Hotkeys : DefaultPriority(hk)

Spec == Init /\ [][Next]_vars

----------------------------------------------------------------------------
(* Claims on the default admission policy *)

LastIsDefaultBlacklist == last.op = "default_blacklist"

\* C1: a whitelisted caller is accepted by default_blacklist whatever the
\* blacklist, the snapshot, the permit requirement and its history are.
C1_WhitelistedAccepted ==
    (LastIsDefaultBlacklist /\ last.hotkey \in config.whitelist)
        => (last.kind = "return" /\ last.decision.reject = FALSE)

\* a whitelisted caller that is also blacklisted, with no snapshot and a
\* forced validator permit, has been decided
C1_Witness ==
    /\ LastIsDefaultBlacklist
    /\ last.hotkey \in config.whitelist \cap config.blacklist
    /\ ~megastring.present
    /\ config.force_validator_permit
    /\ last.decision.reject = FALSE

\* C2: a blacklisted caller that is not whitelisted is rejected by
\* default_blacklist in every state of snapshot, flags and history.
C2_BlacklistedRejected ==
    (/\ LastIsDefaultBlacklist
     /\ last.hotkey \in config.blacklist
     /\ last.hotkey \notin config.whitelist)
        => (last.kind = "return" /\ last.decision.reject = TRUE)

\* a blacklisted, not whitelisted caller that unregistered callers are
\* allowed for, with no snapshot, has been decided
C2_Witness ==
    /\ LastIsDefaultBlacklist
    /\ last.hotkey \in config.blacklist \ config.whitelist
    /\ config.allow_non_registered
    /\ ~megastring.present
    /\ last.decision.reject = TRUE

\* The six rules of the admission contract, in their order; a caller counts
\* as registered when a snapshot is present and lists it.
RuleMatches(n, cfg, m, ts, t, hk) ==
    LET registered == m.present /\ InHotkeys(m, hk)
    IN  CASE n = 1 -> hk \in cfg.whitelist
          [] n = 2 -> hk \in cfg.blacklist
          [] n = 3 -> ~cfg.allow_non_registered /\ m.present /\ ~registered
          [] n = 4 -> /\ cfg.force_validator_permit
                      /\ (registered => ~m.validator_permit[IndexOf(m, hk)])
          [] n = 5 -> /\ hk \in DOMAIN ts
                      /\ t - ts[hk][1] < cfg.min_request_period * SecondsPerMinute
          [] OTHER -> TRUE

FirstMatchingRule(cfg, m, ts, t, hk) ==
    CHOOSE n \in 1..6 :
        /\ RuleMatches(n, cfg, m, ts, t, hk)
        /\ \A k \in 1..(n - 1) : ~RuleMatches(k, cfg, m, ts, t, hk)

RuleRejects(n) == n \in {2, 3, 4, 5}

\* the rule a reason of default_blacklist belongs to
RuleOfReason(reason) ==
    CASE reason.text = "whitelisted hotkey" -> 1
      [] reason.text = "blacklisted hotkey" -> 2
      [] reason.text = "hotkey not registered" -> 3
      [] reason.text = "validator permit required" -> 4
      [] reason.text = "validator permit required, but hotkey not registered" -> 4
      [] reason.text = "request frequency exceeded" -> 5
      [] reason.text = "passed blacklist" -> 6
      [] OTHER -> 0

\* C3: the result of default_blacklist is the result of the first matching
\* rule of the six-step list, for every caller, configuration, snapshot and
\* history.
C3_FirstMatchWins ==
    LastIsDefaultBlacklist =>
        LET n == FirstMatchingRule(config, megastring, request_timestamps,
                                   now, last.hotkey)
        IN  /\ last.kind = "return"
            /\ RuleOfReason(last.decision.reason) = n
            /\ last.decision.reject = RuleRejects(n)

\* C3 wherever default_blacklist returns at all
C3_FirstMatchWinsWhenReturned ==
    (LastIsDefaultBlacklist /\ last.kind = "return") =>
        LET n == FirstMatchingRule(config, megastring, request_timestamps,
                                   now, last.hotkey)
        IN  /\ RuleOfReason(last.decision.reason) = n
            /\ last.decision.reject = RuleRejects(n)

\* a snapshot is present and lists the caller
Registered(m, hk) == m.present /\ InHotkeys(m, hk)

\* C11: with a snapshot present and unregistered callers not allowed, a
\* caller that is neither whitelisted nor blacklisted and is not in the
\* snapshot is rejected as not registered, whatever the permit flag and the
\* histories are.
C11_UnregisteredRejected ==
    (/\ LastIsDefaultBlacklist
     /\ megastring.present
     /\ ~config.allow_non_registered
     /\ last.hotkey \notin config.whitelist \cup config.blacklist
     /\ ~InHotkeys(megastring, last.hotkey))
        => /\ last.kind = "return"
           /\ last.decision = Decision(TRUE, Reason("hotkey not registered"))

\* an unregistered caller has been rejected as not registered while a
\* permit is required and a history is kept for another caller
C11_Witness ==
    /\ LastIsDefaultBlacklist
    /\ megastring.present
    /\ ~config.allow_non_registered
    /\ config.force_validator_permit
    /\ last.hotkey \notin config.whitelist \cup config.blacklist
    /\ ~InHotkeys(megastring, last.hotkey)
    /\ request_timestamps # NoTimestamps
    /\ last.decision = Decision(TRUE, Reason("hotkey not registered"))

\* validatorPermit at the caller's uid
HasPermit(m, hk) == m.validator_permit[IndexOf(m, hk)]

PermitRequired == Reason("validator permit required")
PermitRequiredNotRegistered ==
    Reason("validator permit required, but hotkey not registered")

\* C12 as stated: with a permit required and a snapshot present, a caller
\* that is not whitelisted is accepted only if it is registered with a
\* permit; registered without permit it is rejected with "validator permit
\* required", unregistered with "validator permit required, but hotkey not
\* registered" (so never with the rate-limit reason).
C12_PermitRule ==
    (/\ LastIsDefaultBlacklist
     /\ config.force_validator_permit
     /\ megastring.present
     /\ last.hotkey \notin config.whitelist)
        => /\ last.kind = "return"
           /\ ~last.decision.reject =>
                  /\ Registered(megastring, last.hotkey)
                  /\ HasPermit(megastring, last.hotkey)
           /\ IF Registered(megastring, last.hotkey)
              THEN ~HasPermit(megastring, last.hotkey) =>
                       last.decision = Decision(TRUE, PermitRequired)
              ELSE last.decision = Decision(TRUE, PermitRequiredNotRegistered)

\* C12 (amended): the two permit reasons are given to the callers that the
\* blacklist and the registration rule let through; a blacklisted caller is
\* rejected as blacklisted, and an unregistered one as not registered when
\* unregistered callers are not allowed.
C12_PermitRuleAfterEarlierRules ==
    (/\ LastIsDefaultBlacklist
     /\ config.force_validator_permit
     /\ megastring.present
     /\ last.hotkey \notin config.whitelist)
        => /\ last.kind = "return"
           /\ ~last.decision.reject =>
                  /\ Registered(megastring, last.hotkey)
                  /\ HasPermit(megastring, last.hotkey)
           /\ IF last.hotkey \in config.blacklist
              THEN last.decision = Decision(TRUE, Reason("blacklisted hotkey"))
              ELSE IF Registered(megastring, last.hotkey)
              THEN ~HasPermit(megastring, last.hotkey) =>
                       last.decision = Decision(TRUE, PermitRequired)
              ELSE IF config.allow_non_registered
              THEN last.decision = Decision(TRUE, PermitRequiredNotRegistered)
              ELSE last.decision =
                       Decision(TRUE, Reason("hotkey not registered"))

\* a registered caller at the second uid, without permit while the first
\* uid has one, has been rejected for the permit although its history is
\* inside the request period
C12_Witness ==
    /\ LastIsDefaultBlacklist
    /\ config.force_validator_permit
    /\ Registered(megastring, last.hotkey)
    /\ IndexOf(megastring, last.hotkey) = 2
    /\ megastring.validator_permit[1]
    /\ ~HasPermit(megastring, last.hotkey)
    /\ RateLimited(config, request_timestamps, now, last.hotkey)
    /\ last.decision = Decision(TRUE, PermitRequired)

\* an unregistered caller that is allowed has been rejected for the permit
C12_WitnessUnregistered ==
    /\ LastIsDefaultBlacklist
    /\ config.force_validator_permit
    /\ megastring.present
    /\ config.allow_non_registered
    /\ last.decision = Decision(TRUE, PermitRequiredNotRegistered)

\* the caller passes rules 1 to 4
PassesRulesOneToFour(cfg, m, ts, t, hk) ==
    FirstMatchingRule(cfg, m, ts, t, hk) >= 5

\* C13: a caller that passes rules 1 to 4 is rejected by the rate limit
\* exactly when it has a history and now - history[0] is strictly less than
\* the minimum request period; otherwise it is accepted as passed.
C13_RateLimitIff ==
    (/\ LastIsDefaultBlacklist
     /\ PassesRulesOneToFour(config, megastring, request_timestamps, now,
                             last.hotkey))
        => LET hk == last.hotkey
               inside ==
                   /\ hk \in DOMAIN request_timestamps
                   /\ now - request_timestamps[hk][1]
                          < config.min_request_period * SecondsPerMinute
           IN  /\ last.kind = "return"
               /\ last.decision.reject <=> inside
               /\ last.decision.reject =>
                      last.decision.reason =
                          RateReason(hk, Len(request_timestamps[hk]),
                                     config.min_request_period)
               /\ ~last.decision.reject =>
                      last.decision.reason = Reason("passed blacklist")

\* a caller has been accepted exactly one request period after its oldest
\* kept timestamp
C13_Witness ==
    /\ LastIsDefaultBlacklist
    /\ last.hotkey \in DOMAIN request_timestamps
    /\ request_timestamps[last.hotkey][1] > 0
    /\ now - request_timestamps[last.hotkey][1]
           = config.min_request_period * SecondsPerMinute
    /\ last.decision = Decision(FALSE, Reason("passed blacklist"))

\* a caller has been rejected inside the request period
C13_WitnessRejected ==
    /\ LastIsDefaultBlacklist
    /\ last.decision.reject
    /\ last.decision.reason.text = "request frequency exceeded"

LastIsDefaultPriority == last.op = "default_priority"

\* C26: for every configured history length and every history, the
\* look-backs history[0] of the rate limit and history[-10] of the scorer
\* are in bounds: default_blacklist and default_priority never fail with
\* an index error.
C26_LookbacksInBounds ==
    (LastIsDefaultBlacklist \/ LastIsDefaultPriority) =>
        last.exc # "IndexError"

\* the tracker as the last call found it, for the caller of that call
TimestampsBefore ==
    IF last.had_history THEN [k \in {last.hotkey} |-> last.before]
    ELSE NoTimestamps

\* C5: with no snapshot, default_blacklist and default_priority complete
\* without error for every configuration: admission skips the registration
\* check and scoring returns the default priority.
C5_AbsentSnapshotTolerated ==
    ~megastring.present =>
        /\ LastIsDefaultBlacklist =>
              /\ last.kind = "return"
              /\ RuleOfReason(last.decision.reason) \notin {3, 4}
        /\ LastIsDefaultPriority =>
              /\ last.kind = "return"
              /\ last.priority = Rat(config.priority_default, 1)

\* C5 for the scorer alone
C5_AbsentSnapshotScoring ==
    (~megastring.present /\ LastIsDefaultPriority) =>
        /\ last.kind = "return"
        /\ last.priority = Rat(config.priority_default, 1)

----------------------------------------------------------------------------
(* Sequential specification of the default scorer on histories as long as *)
(* its look-back: SpecScore                                               *)

\* snapshots listing the miner's own hotkey (miner.py line 93) at the first
\* uid and caller hk1 at the second, with different stakes
ScoreSnapshots ==
    {[present |-> TRUE, block |-> 0, hotkeys |-> <<"own", "hk1">>, S |-> s,
      validator_permit |-> <<TRUE, TRUE>>] : s \in {<<1, 3>>, <<3, 1>>}}

\* a snapshot in which both callers are registered
TwoCallerSnapshot ==
    [present |-> TRUE, block |-> 0, hotkeys |-> <<"hk1", "hk2">>,
     S |-> <<1, 3>>, validator_permit |-> <<TRUE, TRUE>>]

InitScore ==
    /\ config \in {c \in Configs : /\ ~c.use_request_cache
                                   /\ c.request_cache_block_span = 0
                                   /\ c.whitelist = {}
                                   /\ c.blacklist = {}
                                   /\ ~c.force_validator_permit
                                   /\ ~c.allow_non_registered
                                   /\ c.len_request_timestamps
                                          \in ScoreHistLens
                                   /\ ~c.wandb_on}
    /\ megastring \in {NoSnapshot} \cup ScoreSnapshots
                      \cup (IF config.len_request_timestamps = 2
                            THEN {TwoCallerSnapshot} ELSE {})
    /\ request_timestamps = NoTimestamps
    /\ now = StartTime
    /\ last = NoCall
    /\ Quiet

NextScore ==
    \/ Tick
    \/ \E hk \in Hotkeys : DefaultPriority(hk)

SpecScore == InitScore /\ [][NextScore]_vars

\* C18: default_priority returns the configured default priority whenever
\* the snapshot is absent or does not list the caller, whatever histories
\* are kept.
C18_UnregisteredGetsDefault ==
    (LastIsDefaultPriority /\ ~Registered(megastring, last.hotkey)) =>
        /\ last.kind = "return"
        /\ last.priority = Rat(config.priority_default, 1)

\* a caller that a present snapshot does not list has been given a default
\* priority that is not 0, while a history is kept for a registered caller
C18_Witness ==
    /\ LastIsDefaultPriority
    /\ megastring.present
    /\ ~InHotkeys(megastring, last.hotkey)
    /\ config.priority_default # 0
    /\ request_timestamps # NoTimestamps
    /\ last.priority = Rat(config.priority_default, 1)

\* with no snapshot a caller has been given a default priority that is not 0
C18_WitnessAbsent ==
    /\ LastIsDefaultPriority
    /\ ~megastring.present
    /\ config.priority_default # 0
    /\ last.priority = Rat(config.priority_default, 1)

\* the floats a and b are equal
RatEq(a, b) == a.num * b.den = b.num * a.den

\* the float a is at most the float b
RatLeq(a, b) == a.num * b.den <= b.num * a.den

\* max(elapsed / stakeDoublingPeriod, 1) * stake for the caller of the last
\* call, the doubling period being time_stake_multiplicate minutes
ScaledStake(elapsed) ==
    LET period == config.time_stake_multiplicate * SecondsPerMinute
        stake == megastring.S[IndexOf(megastring, last.hotkey)]
    IN  Rat(Max(elapsed, period) * stake, period)

\* C19: for a registered caller without history the first default_priority
\* call returns the default priority and creates the history; each later
\* call made while fewer than 10 timestamps are recorded reads the
\* sentinel 0 and returns max(now / stakeDoublingPeriod, 1) * stake.
C19_FirstDefaultThenSentinel ==
    (LastIsDefaultPriority /\ Registered(megastring, last.hotkey)) =>
        IF ~last.had_history
        THEN /\ last.kind = "return"
             /\ last.priority = Rat(config.priority_default, 1)
             /\ last.hotkey \in DOMAIN request_timestamps
        ELSE last.nrecorded < LookBack =>
                 /\ last.kind = "return"
                 /\ RatEq(last.priority, ScaledStake(now - 0))

\* C19 for histories as long as the look-back
C19_WithLongHistory ==
    config.len_request_timestamps >= LookBack => C19_FirstDefaultThenSentinel

\* the tenth call of a registered caller has been scored from the sentinel
C19_WitnessLongHistory ==
    /\ LastIsDefaultPriority
    /\ Registered(megastring, last.hotkey)
    /\ last.nrecorded = LookBack - 1
    /\ last.kind = "return"
    /\ ~RatEq(last.priority, Rat(config.priority_default, 1))

\* the last call scored a registered caller from its history
LastScoredFromHistory ==
    /\ LastIsDefaultPriority
    /\ Registered(megastring, last.hotkey)
    /\ last.had_history
    /\ last.kind = "return"

\* the look-back entry the last call read, and the stake of its caller
LastLookback == last.before[Len(last.before) - LookBack + 1]
LastStake == megastring.S[IndexOf(megastring, last.hotkey)]

\* stakes and elapsed times (seconds since the look-back entry) the scorer
\* is compared on
ProbeStakes == {0, 1, 3}
ProbeOffsets == {d * TickSeconds : d \in -1..4}

\* the snapshot of the last call with the caller's stake set to stake
WithStake(stake) ==
    [megastring EXCEPT !.S[IndexOf(megastring, last.hotkey)] = stake]

\* the priority default_priority gives the caller of the last call, on the
\* history that call found, with the given stake at the given clock reading
ScoreAt(stake, t) ==
    default_priority(config, WithStake(stake), TimestampsBefore, t,
                     last.hotkey).priority

\* C21: for a registered caller with a history the default priority is
\* non-decreasing in the stake at a fixed elapsed time, non-decreasing in
\* the elapsed time at a fixed stake, and equal to the stake wherever the
\* elapsed time is at most the doubling period (scale <= 1).
C21_MonotoneInStakeAndElapsed ==
    LastScoredFromHistory =>
        \* score[stake][e]: the priority with that stake, e seconds after
        \* the look-back entry
        \A score \in {[stake \in ProbeStakes |->
                          [e \in ProbeOffsets |->
                              ScoreAt(stake, LastLookback + e)]]} :
            /\ \A e \in ProbeOffsets : \A s1, s2 \in ProbeStakes :
                  s1 <= s2 => RatLeq(score[s1][e], score[s2][e])
            /\ \A stake \in ProbeStakes : \A e1, e2 \in ProbeOffsets :
                  e1 <= e2 => RatLeq(score[stake][e1], score[stake][e2])
            /\ \A stake \in ProbeStakes : \A e \in ProbeOffsets :
                  e <= config.time_stake_multiplicate * SecondsPerMinute
                      => RatEq(score[stake][e], Rat(stake, 1))
            /\ RatEq(last.priority, ScoreAt(LastStake, now))

\* a caller with stake 3 has been scored from a recorded arrival time less
\* than a doubling period ago
C21_Witness ==
    /\ LastScoredFromHistory
    /\ LastStake = 3
    /\ LastLookback > 0
    /\ now - LastLookback
           < config.time_stake_multiplicate * SecondsPerMinute
    /\ RatEq(last.priority, Rat(3, 1))

\* a caller has been scored above its stake (scale > 1)
C21_WitnessScaled ==
    /\ LastScoredFromHistory
    /\ LastStake = 3
    /\ ~RatLeq(last.priority, Rat(3, 1))

\* C22: the value default_priority returns is greater than or equal to 0
\* for every request, snapshot, history and configuration value, every
\* configurable default priority included.
C22_PriorityNonNegative ==
    (LastIsDefaultPriority /\ last.kind = "return") =>
        RatLeq(Rat(0, 1), last.priority)

\* C22 for a default priority that is not negative
C22_NonNegativeWithNonNegativeDefault ==
    config.priority_default >= 0 => C22_PriorityNonNegative

\* the last call appended the clock reading to the history of its caller
LastRecorded ==
    /\ Len(journal.recorded[last.hotkey]) = last.nrecorded + 1
    /\ last.hotkey \in DOMAIN request_timestamps
    /\ request_timestamps[last.hotkey] # <<>>
    /\ request_timestamps[last.hotkey]
           [Len(request_timestamps[last.hotkey])] = now

\* C23: every request that reaches default_priority has its arrival time
\* recorded in the history of its caller once the score is computed,
\* whether the caller is registered or not, the snapshot present or
\* absent, and a history kept or not.
C23_EveryScoredRequestRecorded ==
    LastIsDefaultPriority => (last.kind = "return" /\ LastRecorded)

\* C23 for registered callers and histories as long as the look-back
C23_RegisteredRecorded ==
    (/\ LastIsDefaultPriority
     /\ Registered(megastring, last.hotkey)
     /\ config.len_request_timestamps >= LookBack)
        => (last.kind = "return" /\ LastRecorded)

\* C25: every history that is kept has exactly len_request_timestamps
\* entries, for every configured length and after any sequence of records.
C25_HistoryHasConfiguredLength ==
    \A hk \in DOMAIN request_timestamps :
        Len(request_timestamps[hk]) = config.len_request_timestamps

\* C25 for a configured length of at least 1
C25_LengthKeptWhenPositive ==
    config.len_request_timestamps >= 1 => C25_HistoryHasConfiguredLength

\* the last call was a default_priority call that recorded its request
LastCalledRecord ==
    /\ LastIsDefaultPriority
    /\ Len(journal.recorded[last.hotkey]) = last.nrecorded + 1

\* C27: a record at time t on a history of the configured length N leaves
\* that history without its oldest entry, followed by t; after k <= N
\* records from no entry the history is N - k zeros followed by the k
\* recorded times in order; the histories of the other callers are as they
\* were.
C27_RecordDropsOldest ==
    LastCalledRecord =>
        LET N == config.len_request_timestamps
            hk == last.hotkey
            k == Len(journal.recorded[hk])
        IN  /\ hk \in DOMAIN request_timestamps
            /\ (last.had_history /\ Len(last.before) = N) =>
                   request_timestamps[hk] =
                       SubSeq(last.before, 2, N) \o <<now>>
            /\ k <= N =>
                   request_timestamps[hk] =
                       [i \in 1..(N - k) |-> 0] \o journal.recorded[hk]
            /\ \A o \in Hotkeys \ {hk} :
                   /\ (o \in DOMAIN request_timestamps)
                          = (o \in DOMAIN last.tracker)
                   /\ o \in DOMAIN last.tracker =>
                          request_timestamps[o] = last.tracker[o]

\* a record on a full history has dropped a recorded time, not a zero
C27_Witness ==
    /\ LastCalledRecord
    /\ last.had_history
    /\ Len(last.before) = config.len_request_timestamps
    /\ last.before[1] # 0
    /\ last.before[1] # last.before[2]

\* a first record was made while the other caller had a history
C27_WitnessOther ==
    /\ LastCalledRecord
    /\ ~last.had_history
    /\ \E o \in Hotkeys \ {last.hotkey} : o \in DOMAIN last.tracker

\* the last of several records into a history that still holds a zero
C27_WitnessFilling ==
    /\ LastCalledRecord
    /\ Len(journal.recorded[last.hotkey]) >= 3
    /\ Len(journal.recorded[last.hotkey]) < config.len_request_timestamps

\* the timestamps recorded for the caller of the last call before that call
RecordedBefore == SubSeq(journal.recorded[last.hotkey], 1, last.nrecorded)

\* the arrival time of the 10th most recent recorded request, the sentinel
\* 0 when fewer than 10 are recorded
TenthMostRecent ==
    IF last.nrecorded >= LookBack
    THEN RecordedBefore[last.nrecorded - LookBack + 1]
    ELSE 0

\* C20: for a registered caller with a history, default_priority returns
\* max(elapsed / stakeDoublingPeriod, 1) * stake[uid], elapsed being now
\* minus history[historyLength - 10], which is the arrival time of the 10th
\* most recent recorded request, or the sentinel 0 when fewer than 10 are
\* recorded.
C20_ScoreFromLookback ==
    (/\ LastIsDefaultPriority
     /\ Registered(megastring, last.hotkey)
     /\ last.had_history) =>
        /\ last.kind = "return"
        /\ last.before[config.len_request_timestamps - LookBack + 1]
              = TenthMostRecent
        /\ RatEq(last.priority, ScaledStake(now - TenthMostRecent))

\* C20 for histories as long as the look-back
C20_WithLongHistory ==
    config.len_request_timestamps >= LookBack => C20_ScoreFromLookback

\* a caller with more than 10 recorded requests has been scored from the
\* arrival time of the 10th most recent one, less than a doubling period
\* ago, while its history still begins with an older entry
C20_WitnessLongHistory ==
    /\ LastIsDefaultPriority
    /\ Registered(megastring, last.hotkey)
    /\ last.nrecorded > LookBack
    /\ TenthMostRecent > last.before[1]
    /\ now - TenthMostRecent
           < config.time_stake_multiplicate * SecondsPerMinute
    /\ last.kind = "return"

----------------------------------------------------------------------------
(* Requests served one at a time by the functions attached to the fermion: *)
(* SpecServe                                                               *)

InitServe ==
    /\ config \in {c \in Configs : /\ ~c.use_request_cache
                                   /\ c.request_cache_block_span = 0
                                   /\ c.whitelist = {}
                                   /\ c.blacklist = {}
                                   /\ ~c.force_validator_permit
                                   /\ c.priority_default = 0
                                   /\ c.time_stake_multiplicate = 1
                                   /\ c.len_request_timestamps
                                          \in ServeHistLens
                                   /\ ~c.wandb_on}
    /\ megastring \in {m \in SnapshotsAt(0) : /\ m.hotkeys = <<"hk1">>
                                              /\ m.S[1] = 1
                                              /\ m.validator_permit[1]}
    /\ request_timestamps = NoTimestamps
    /\ now = StartTime
    /\ last = NoCall
    /\ Quiet

\* one request of caller hk: the fermion calls Miner.blacklist and, when the
\* request is not blacklisted, Miner.priority (miner.py lines 113-117, 246,
\* 269)
Serve(hk) ==
    \E b \in {blacklist(config, megastring, request_timestamps, now, hk,
                         BlacklistFuncs.not_implemented, FALSE)},
       p \in {priority(config, megastring, request_timestamps, now, hk,
                        PriorityFuncs.not_implemented)} :
        LET admitted == b.kind = "return" /\ ~Truthy(b.does_blacklist)
            had == hk \in DOMAIN request_timestamps
        IN  /\ Len(journal.accepted["hk1"]) + Len(journal.accepted["hk2"])
                   < MaxServed
            /\ request_timestamps' =
                   IF admitted THEN p.timestamps ELSE request_timestamps
            /\ journal' =
                   IF ~admitted THEN journal
                   ELSE [accepted |->
                            [journal.accepted EXCEPT ![hk] = Append(@, now)],
                         recorded |->
                            [journal.recorded EXCEPT
                                 ![hk] = @ \o Times(now, p.recorded)],
                         inserted |-> journal.inserted]
            /\ last' = [NoCall EXCEPT
                          !.op = "serve", !.hotkey = hk,
                          !.kind = b.kind, !.exc = b.exc,
                          !.decision = Decision(b.does_blacklist.b, b.reason.s),
                          !.admitted = admitted,
                          !.score_kind = IF admitted THEN p.kind ELSE "",
                          !.priority = IF admitted THEN p.priority
                                       ELSE Rat(0, 1),
                          !.had_history = had,
                          !.before = IF had THEN request_timestamps[hk]
                                     ELSE <<>>,
                          !.nrecorded = Len(journal.recorded[hk])]
            /\ UNCHANGED <<config, megastring, request_cache, now, seen, pc,
                           lock, local,
                           miner, threads, chain, stream>>

NextServe ==
    \/ Tick
    \/ \E hk \in Hotkeys : Serve(hk)

SpecServe == InitServe /\ [][NextServe]_vars

\* the requests of hk admitted so far hold at most n requests in any time
\* window shorter than the minimum request period
AtMostPerWindow(hk, n) ==
    LET acc == journal.accepted[hk]
    IN  \A i \in 1..Len(acc) : \A j \in i..Len(acc) :
            acc[j] - acc[i] < config.min_request_period * SecondsPerMinute
                => j - i + 1 <= n

\* C14: for every caller that is not whitelisted, registered or not, served
\* one request at a time, at most len_request_timestamps requests are
\* admitted within any window shorter than the minimum request period.
C14_AtMostHistoryLengthPerWindow ==
    \A hk \in Hotkeys \ config.whitelist :
        AtMostPerWindow(hk, config.len_request_timestamps)

\* C14 for a registered caller whose history is as long as the look-back
C14_RegisteredWithLongHistory ==
    \A hk \in Hotkeys \ config.whitelist :
        (/\ Registered(megastring, hk)
         /\ config.len_request_timestamps >= LookBack)
            => AtMostPerWindow(hk, config.len_request_timestamps)

\* a registered caller has filled its history inside one period and has
\* then been rejected by the rate limit
C14_RegisteredWitness ==
    /\ last.op = "serve"
    /\ Registered(megastring, last.hotkey)
    /\ config.len_request_timestamps >= LookBack
    /\ Len(journal.accepted[last.hotkey]) = config.len_request_timestamps
    /\ ~last.admitted
    /\ last.decision.reason.text = "request frequency exceeded"

LastIsServe == last.op = "serve"

RejectedByRateLimit ==
    /\ last.decision.reject
    /\ last.decision.reason.text = "request frequency exceeded"

\* C15: while fewer than len_request_timestamps timestamps have been
\* recorded for a caller, the oldest entry of its history is the sentinel 0
\* and, the clock reading being above the minimum request period, the
\* caller is not rejected by the rate limit.
C15_SentinelNeverRateLimits ==
    (LastIsServe /\ last.nrecorded < config.len_request_timestamps) =>
        /\ last.had_history => last.before[1] = 0
        /\ now > config.min_request_period * SecondsPerMinute
              => ~RejectedByRateLimit

\* a caller with several recorded timestamps, fewer than the history
\* length, all of them inside the request period, has been admitted
C15_Witness ==
    /\ LastIsServe
    /\ last.had_history
    /\ last.nrecorded >= 2
    /\ last.nrecorded < config.len_request_timestamps
    /\ now - last.before[Len(last.before)]
           < config.min_request_period * SecondsPerMinute
    /\ last.admitted

\* the number of record_request_timestamps calls made by the last request
LastRecordCalls == Len(journal.recorded[last.hotkey]) - last.nrecorded

C24_WitnessRejected ==
    /\ LastIsServe
    /\ ~last.admitted
    /\ last.kind = "return"
    /\ last.had_history
    /\ LastRecordCalls = 0

----------------------------------------------------------------------------
(* Sequential specification of the override dispatch: SpecDispatch *)

InitDispatch ==
    /\ config \in {c \in Configs : /\ ~c.use_request_cache
                                   /\ c.request_cache_block_span = 0
                                   /\ c.whitelist = {}
                                   /\ c.blacklist # {"hk1", "hk2"}
                                   /\ c.priority_default = 0
                                   /\ c.time_stake_multiplicate = 1
                                   /\ c.len_request_timestamps
                                          \in {1, LookBack}}
    /\ megastring \in {NoSnapshot}
          \cup {m \in SnapshotsAt(0) : \A i \in 1..Len(m.S) : m.S[i] = 1}
    \* the long history with one registered caller and the plain options
    /\ config.len_request_timestamps = LookBack =>
          /\ config.blacklist = {}
          /\ ~config.force_validator_permit
          /\ ~config.allow_non_registered
          /\ ~config.wandb_on
          /\ megastring.present
          /\ megastring.hotkeys = <<"hk1">>
          /\ megastring.validator_permit[1]
    /\ request_timestamps = NoTimestamps
    /\ now = StartTime
    /\ last = NoCall
    /\ Quiet

\* Miner.blacklist / a subclass override: blacklist(self, func, nucleon)
Blacklist(hk, fname, sink_fails) ==
    \E r \in {blacklist(config, megastring, request_timestamps, now, hk,
                         BlacklistFuncs[fname], sink_fails)} :
        /\ sink_fails => config.wandb_on
        /\ last' = [NoCall EXCEPT !.op = "blacklist", !.hotkey = hk,
                                  !.func = fname, !.kind = r.kind,
                                  !.exc = r.exc,
                                  !.result = PyTuple(<<r.does_blacklist,
                                                       r.reason>>),
                                  !.defaults = r.defaults,
                                  !.reported = r.reported,
                                  !.sink_fails = sink_fails]
        /\ UNCHANGED <<journal, config, megastring, request_timestamps, request_cache,
                       now, seen, pc, lock, local,
                       miner, threads, chain, stream>>

\* Miner.priority / a subclass override: priority(self, func, nucleon)
Priority(hk, fname) ==
    \E r \in {priority(config, megastring, request_timestamps, now, hk,
                        PriorityFuncs[fname])} :
        /\ Len(journal.recorded[hk]) < MaxServed
        /\ request_timestamps' = r.timestamps
        /\ journal' = [journal EXCEPT
                           !.recorded[hk] = @ \o Times(now, r.recorded)]
        /\ last' = [NoCall EXCEPT !.op = "priority", !.hotkey = hk,
                                  !.func = fname, !.kind = r.kind,
                                  !.exc = r.exc, !.result = r.result,
                                  !.priority = r.priority,
                                  !.defaults = r.defaults,
                                  !.had_history =
                                      hk \in DOMAIN request_timestamps,
                                  !.before =
                                      IF hk \in DOMAIN request_timestamps
                                      THEN request_timestamps[hk] ELSE <<>>,
                                  !.nrecorded = Len(journal.recorded[hk])]
        /\ UNCHANGED <<config, megastring, request_cache, now, seen, pc, lock,
                       local,
                       miner, threads, chain, stream>>

NextDispatch ==
    \/ \E hk \in Hotkeys, fname \in DOMAIN BlacklistFuncs,
          sink_fails \in BOOLEAN : Blacklist(hk, fname, sink_fails)
    \/ \E hk \in Hotkeys, fname \in DOMAIN PriorityFuncs : Priority(hk, fname)

SpecDispatch == InitDispatch /\ [][NextDispatch]_vars

\* a (bool, str) pair
WellFormedPair(v) ==
    /\ v.t = "tuple"
    /\ Len(v.items) = 2
    /\ v.items[1].t = "bool"
    /\ v.items[2].t = "str"

LastIsBlacklist == last.op = "blacklist"

\* C4: whatever the custom admission function does, and in every state of
\* snapshot and configuration, the blacklist dispatch returns a well-formed
\* (bool, reason) pair and propagates no exception (the observability sink
\* itself not failing).
C4_DispatchAlwaysWellFormed ==
    (LastIsBlacklist /\ ~last.sink_fails) =>
        (last.kind = "return" /\ WellFormedPair(last.result))

\* C4 for a custom function that raises or returns None, a bool or a
\* (bool, str) pair, with a snapshot present or no permit required
C4_WellFormedWhenDefaultReturns ==
    (/\ LastIsBlacklist
     /\ ~last.sink_fails
     /\ last.func \notin {"int", "two_chars"}
     /\ (megastring.present \/ ~config.force_validator_permit)) =>
        (last.kind = "return" /\ WellFormedPair(last.result))

\* the custom function of the last call raised
LastCustomRaised ==
    /\ LastIsBlacklist
    /\ BlacklistFuncs[last.func].kind = "raise"
    /\ ~last.sink_fails

\* the dispatch ended as a direct call d of default_blacklist ends
SameAsDefault(d) ==
    /\ last.kind = d.kind
    /\ last.exc = d.exc
    /\ d.kind = "return" =>
          last.result = PyTuple(<<PyBool(d.decision.reject),
                                  PyText(d.decision.reason)>>)

\* C16: with a custom admission function that raises, the blacklist
\* dispatch ends, in every state, as a direct call of default_blacklist on
\* the same request and state ends, default_blacklist being evaluated once.
C16_RaisingCustomIsDefault ==
    LastCustomRaised =>
        /\ SameAsDefault(default_blacklist(config, megastring,
                                           request_timestamps, now,
                                           last.hotkey))
        /\ last.defaults = 1

\* C16 in the states where default_blacklist returns
C16_RaisingCustomIsDefaultWhenReturned ==
    (LastCustomRaised /\ last.kind = "return") =>
        /\ SameAsDefault(default_blacklist(config, megastring,
                                           request_timestamps, now,
                                           last.hotkey))
        /\ last.defaults = 1

LastIsPriority == last.op = "priority"

\* C17: when the custom priority function raises NotImplementedError or
\* another error, or returns None, the priority dispatch returns the value
\* of default_priority, evaluated exactly once (one timestamp recorded for
\* a registered caller); a value that is not None is returned as it is and
\* default_priority is not evaluated.
C17_PriorityFallbackOnce ==
    LastIsPriority =>
        LET f == PriorityFuncs[last.func]
            d == default_priority(config, megastring, TimestampsBefore, now,
                                  last.hotkey)
            recorded == Len(journal.recorded[last.hotkey]) - last.nrecorded
        IN  IF f.kind = "return" /\ ~IsNone(f.value)
            THEN /\ last.kind = "return"
                 /\ last.result = f.value
                 /\ last.defaults = 0
                 /\ recorded = 0
            ELSE /\ last.kind = "return"
                 /\ d.kind = "return"
                 /\ last.priority = d.priority
                 /\ last.defaults = 1
                 /\ Registered(megastring, last.hotkey) => recorded = 1

\* C17 for a history as long as the scorer's look-back
C17_FallbackOnceWithLongHistory ==
    config.len_request_timestamps >= LookBack => C17_PriorityFallbackOnce

\* a fallback has scored a registered caller from its history
C17_WitnessLongHistory ==
    /\ LastIsPriority
    /\ last.func = "raises"
    /\ last.had_history
    /\ last.kind = "return"
    /\ last.defaults = 1
    /\ last.priority # Rat(config.priority_default, 1)

\* the (does_blacklist, reason) pair the last dispatch returned
LastDoesBlacklist == last.result.items[1]

\* C30: every decision the blacklist dispatch returns, accept as well as
\* reject, has been reported with the caller's hotkey and the reason, and a
\* dispatch whose report fails still returns the decision it returns when
\* the report succeeds.
C30_EveryDecisionReported ==
    LastIsBlacklist =>
        /\ last.kind = "return" => last.reported
        /\ last.sink_fails =>
               \E r \in {blacklist(config, megastring, request_timestamps,
                                   now, last.hotkey,
                                   BlacklistFuncs[last.func], FALSE)} :
                   /\ last.kind = "return"
                   /\ last.result = PyTuple(<<r.does_blacklist, r.reason>>)

\* C30 for the rejections returned while wandb is on
C30_RejectionsReportedWithWandb ==
    (/\ LastIsBlacklist
     /\ config.wandb_on
     /\ last.kind = "return"
     /\ Truthy(LastDoesBlacklist)) => last.reported

\* a rejection has been returned and reported
C30_WitnessReported ==
    /\ LastIsBlacklist
    /\ last.kind = "return"
    /\ Truthy(LastDoesBlacklist)
    /\ last.reported

\* an accept has been returned without a report, wandb being on
C30_WitnessAcceptUnreported ==
    /\ LastIsBlacklist
    /\ config.wandb_on
    /\ last.kind = "return"
    /\ ~Truthy(LastDoesBlacklist)
    /\ ~last.reported

\* the failure of wandb.log has left the dispatch by an exception
C30_WitnessSinkFailure ==
    /\ LastIsBlacklist
    /\ last.sink_fails
    /\ last.kind = "raise"
    /\ last.exc = "wandb.Error"

\* what the custom function of the last dispatch did
LastCustom == BlacklistFuncs[last.func]

\* C32: a custom function returning a bare boolean b makes the dispatch
\* return (b, "no reason provided"), one returning a pair (b, r) with a
\* boolean b makes it return (b, r), and in both cases default_blacklist is
\* not evaluated.
C32_CustomResultNormalized ==
    (LastIsBlacklist /\ LastCustom.kind = "return") =>
        /\ LastCustom.value.t = "bool" =>
               /\ last.kind = "return"
               /\ last.result = PyTuple(<<LastCustom.value,
                                          PyStr("no reason provided")>>)
               /\ last.defaults = 0
        /\ (/\ LastCustom.value.t = "tuple"
            /\ Len(LastCustom.value.items) = 2
            /\ LastCustom.value.items[1].t = "bool") =>
               /\ last.kind = "return"
               /\ last.result = LastCustom.value
               /\ last.defaults = 0

\* C32 for the dispatches whose report to wandb does not fail
C32_NormalizedWhenReportSucceeds ==
    ~last.sink_fails => C32_CustomResultNormalized

\* a bare True has been returned by the custom function and reported
C32_WitnessBool ==
    /\ LastIsBlacklist
    /\ last.func = "bool_true"
    /\ last.reported
    /\ last.kind = "return"

\* a pair rejecting the request has been returned by the custom function
\* for a caller default_blacklist admits
C32_WitnessPair ==
    /\ LastIsBlacklist
    /\ last.func = "pair_true"
    /\ last.kind = "return"
    /\ default_blacklist(config, megastring, request_timestamps, now,
                         last.hotkey).kind = "return"
    /\ ~default_blacklist(config, megastring, request_timestamps, now,
                          last.hotkey).decision.reject

----------------------------------------------------------------------------
(* Sequential specification of the deduplication cache: SpecCache *)

InitCache ==
    /\ config \in {c \in Configs : /\ c.whitelist = {}
                                   /\ c.blacklist = {}
                                   /\ ~c.force_validator_permit
                                   /\ ~c.allow_non_registered
                                   /\ ~c.wandb_on
                                   /\ c.priority_default = 0
                                   /\ c.time_stake_multiplicate = 1
                                   /\ c.len_request_timestamps = 1}
    /\ megastring \in {NoSnapshot}
          \cup {m \in SnapshotsAt(0) : /\ m.hotkeys = <<"hk1">>
                                       /\ m.S[1] = 1
                                       /\ m.validator_permit[1]}
    /\ request_timestamps = NoTimestamps
    /\ now = StartTime
    /\ last = NoCall
    /\ Quiet

\* the network snapshot is refreshed at a later block
SyncMegastring ==
    /\ megastring.present
    /\ megastring.block < MaxBlock
    /\ megastring' = [megastring EXCEPT !.block = @ + 1]
    /\ last' = NoCall
    /\ UNCHANGED <<journal, config, request_timestamps, request_cache, now, seen, pc,
                   lock, local,
                   miner, threads, chain, stream>>

\* is_request_in_cache(self, nucleon) awaited to completion; when noted, the
\* call also leaves its request in the journal
IsRequestInCacheCall(nucleon, noted) ==
    \E r \in {is_request_in_cache(config, megastring, request_cache,
                                  nucleon)} :
        LET key == RequestKey(nucleon)
            inserted == r.kind = "return" /\ ~r.should_blacklist
        IN  /\ request_cache' = r.cache
            /\ seen' = IF inserted
                       THEN [k \in (DOMAIN seen) \cup {key} |->
                                IF k = key THEN megastring.block ELSE seen[k]]
                       ELSE seen
            /\ last' = [NoCall EXCEPT
                          !.op = "is_request_in_cache",
                          !.kind = r.kind, !.exc = r.exc, !.key = key,
                          !.block = megastring.block,
                          !.dup = r.should_blacklist,
                          !.prev = IF key \in DOMAIN seen THEN seen[key]
                                   ELSE -1,
                          !.was_cached = key \in DOMAIN request_cache,
                          !.nucleon = IF noted THEN nucleon
                                      ELSE NoCall.nucleon]
            /\ journal' = IF noted /\ inserted
                          THEN [journal EXCEPT !.inserted =
                                   [k \in (DOMAIN @) \cup {key} |->
                                       IF k = key THEN nucleon ELSE @[k]]]
                          ELSE journal
            /\ UNCHANGED <<config, megastring, request_timestamps, now, pc,
                           lock, local, miner, threads, chain, stream>>

IsRequestInCache(nucleon) == IsRequestInCacheCall(nucleon, FALSE)

\* Miner._predict(nucleon), p being what self.predict does
Predict(nucleon, p) ==
    \E r \in {predict_wrapper(config, request_cache, nucleon, p)} :
        /\ request_cache' = r.cache
        /\ last' = [NoCall EXCEPT
                      !.op = "_predict",
                      !.kind = r.kind, !.exc = r.exc,
                      !.key = RequestKey(nucleon),
                      !.block = megastring.block,
                      !.was_cached = RequestKey(nucleon) \in DOMAIN request_cache,
                      !.predicted = r.predicted]
        /\ UNCHANGED <<journal, config, megastring, request_timestamps, now, seen, pc,
                       lock, local,
                       miner, threads, chain, stream>>

NextCache ==
    \/ SyncMegastring
    \/ \E nucleon \in Requests : IsRequestInCache(nucleon)
    \/ \E nucleon \in Requests, p \in PredictOutcomes : Predict(nucleon, p)

SpecCache == InitCache /\ [][NextCache]_vars

\* the dedup check with the journal of inserting requests kept
CheckRequest(nucleon) == IsRequestInCacheCall(nucleon, TRUE)

NextDedup ==
    \/ SyncMegastring
    \/ \E nucleon \in Requests : CheckRequest(nucleon)

SpecDedup == InitCache /\ [][NextDedup]_vars

LastIsCacheCall == last.op = "is_request_in_cache" /\ last.kind = "return"

\* last.prev is the block at which the fingerprint of the last call was most
\* recently inserted before that call, -1 when it never was
WithinSpan ==
    /\ last.prev >= 0
    /\ last.prev <= last.block
    /\ last.block <= last.prev + config.request_cache_block_span

\* C6: a fingerprint inserted at block b and checked again at a block c,
\* b <= c <= b + request_cache_block_span, is reported as a duplicate,
\* whatever calls were made at the blocks in between.
C6_DuplicateWithinSpan ==
    (LastIsCacheCall /\ WithinSpan) => last.dup

\* a second check at the last block of the span, later than the insertion,
\* has reported a duplicate while another fingerprint is cached too
C6_Witness ==
    /\ LastIsCacheCall
    /\ WithinSpan
    /\ last.block > last.prev
    /\ last.dup
    /\ Cardinality(DOMAIN request_cache) >= 2

\* C7: a fingerprint inserted at block b and checked at a block
\* c > b + request_cache_block_span is reported as not duplicate.
C7_NewAfterSpan ==
    (/\ LastIsCacheCall
     /\ last.prev >= 0
     /\ last.block > last.prev + config.request_cache_block_span)
        => ~last.dup

\* C8: after a completed call at block c the cache holds no entry with
\* block + request_cache_block_span < c, and after a miss it maps the
\* fingerprint of the call to c.
C8_SweptAfterEveryCall ==
    LastIsCacheCall =>
        /\ \A k \in DOMAIN request_cache :
              ~(request_cache[k] + config.request_cache_block_span < last.block)
        /\ ~last.dup => /\ last.key \in DOMAIN request_cache
                        /\ request_cache[last.key] = last.block

\* a hit has swept entries: the fingerprint it found is no longer cached
C8_Witness ==
    /\ LastIsCacheCall
    /\ last.dup
    /\ last.key \notin DOMAIN request_cache
    /\ request_cache # NoCache

\* a miss has swept an older entry of another fingerprint
C8_WitnessMiss ==
    /\ LastIsCacheCall
    /\ ~last.dup
    /\ \E k \in DOMAIN seen : k # last.key /\ k \notin DOMAIN request_cache

LastIsPredict == last.op = "_predict"

\* C38: the block stored for a fingerprint is the block of the call that
\* inserted it: a call that finds the fingerprint cached leaves its block as
\* it was, and an entry expires by the block of its insertion, whatever
\* duplicates were seen since.
C38_HitKeepsFirstSeenBlock ==
    /\ \A k \in DOMAIN request_cache :
          /\ k \in DOMAIN seen
          /\ request_cache[k] = seen[k]
    /\ (LastIsCacheCall /\ last.kind = "return") =>
          /\ (last.dup /\ last.key \in DOMAIN request_cache) =>
                 request_cache[last.key] = last.prev
          /\ \A k \in DOMAIN request_cache :
                 ~(seen[k] + config.request_cache_block_span < last.block)

\* a duplicate has been found at a later block than the one of its
\* insertion, and its entry is still cached
C38_Witness ==
    /\ LastIsCacheCall
    /\ last.dup
    /\ last.key \in DOMAIN request_cache
    /\ last.block > last.prev
    /\ last.prev >= 0

\* an entry has expired by the block of its insertion at the call after a
\* duplicate of it was found
C38_WitnessExpired ==
    /\ LastIsCacheCall
    /\ last.dup
    /\ last.key \notin DOMAIN request_cache
    /\ config.request_cache_block_span >= 1
    /\ last.block = last.prev + config.request_cache_block_span + 1

\* the payload of a request: its (role, message) pairs in order
PayloadOf(nucleon) ==
    [i \in 1..Len(nucleon.messages) |->
        <<nucleon.roles[i], nucleon.messages[i]>>]

\* the request whose call inserted the fingerprint of the last call
LastInserter == journal.inserted[last.key]

\* C39: a request is reported as a duplicate only if its payload, as the
\* ordered sequence of (role, message) pairs, is the payload of the request
\* that inserted the fingerprint; the caller may differ.
C39_DuplicateOnlyIfSamePayload ==
    (LastIsCacheCall /\ last.dup) =>
        PayloadOf(last.nucleon) = PayloadOf(LastInserter)

\* C39 for the messages alone: a duplicate carries the messages of the
\* request that inserted the fingerprint, in the same order
C39_DuplicateOnlyIfSameMessages ==
    (LastIsCacheCall /\ last.dup) =>
        last.nucleon.messages = LastInserter.messages

\* every request whose messages are cached is reported as a duplicate,
\* whatever its roles and its caller
C39_SameMessagesAreDuplicates ==
    (LastIsCacheCall /\ last.kind = "return" /\ ~last.dup) =>
        \A k \in DOMAIN journal.inserted :
            k \in DOMAIN request_cache /\ k # last.key =>
                journal.inserted[k].messages # last.nucleon.messages

\* a request has been reported as a duplicate of a request with the same
\* messages and other roles
C39_WitnessOtherRoles ==
    /\ LastIsCacheCall
    /\ last.dup
    /\ last.nucleon.messages = LastInserter.messages
    /\ last.nucleon.roles # LastInserter.roles

\* a request has been reported as a duplicate of a request of another
\* caller
C39_WitnessOtherCaller ==
    /\ LastIsCacheCall
    /\ last.dup
    /\ PayloadOf(last.nucleon) = PayloadOf(LastInserter)
    /\ last.nucleon.hotkey # LastInserter.hotkey

\* C10: with use_request_cache, _predict raises ValueError exactly when the
\* fingerprint was cached before the call, and otherwise records it and
\* calls predict; without use_request_cache it always calls predict.
C10_PredictChecksCache ==
    LastIsPredict =>
        IF config.use_request_cache
        THEN /\ (last.kind = "raise" /\ last.exc = "ValueError" /\ ~last.predicted)
                   <=> last.was_cached
             /\ ~last.was_cached => /\ last.predicted
                                    /\ last.key \in DOMAIN request_cache
        ELSE last.predicted

\* C10 without use_request_cache
C10_PredictWithoutCache ==
    (LastIsPredict /\ ~config.use_request_cache) => last.predicted

----------------------------------------------------------------------------
(* Concurrent is_request_in_cache calls: SpecConc.  Each caller is one    *)
(* coroutine; its statements are separate steps, so that only self.lock   *)
(* keeps two calls from interleaving.                                     *)

Callers == 1..MaxCallers

InitConc ==
    /\ config \in {c \in Configs : /\ c.whitelist = {}
                                   /\ c.blacklist = {}
                                   /\ ~c.force_validator_permit
                                   /\ ~c.allow_non_registered
                                   /\ ~c.wandb_on
                                   /\ c.use_request_cache
                                   /\ c.priority_default = 0
                                   /\ c.time_stake_multiplicate = 1
                                   /\ c.len_request_timestamps = 1}
    /\ megastring \in {m \in SnapshotsAt(0) : /\ m.hotkeys = <<"hk1">>
                                              /\ m.S[1] = 1
                                              /\ m.validator_permit[1]}
    /\ request_timestamps = NoTimestamps
    /\ now = StartTime
    /\ last = NoCall
    /\ Quiet

\* line 29: self.lock can be taken
LockAlwaysFree(l) == TRUE

LockFree(l) == l = NoHolder

\* is_request_in_cache(self, nucleon) is called
Call(c, nucleon) ==
    /\ pc[c] = "idle"
    /\ pc' = [pc EXCEPT ![c] = "acquire"]
    /\ local' = [local EXCEPT ![c].nucleon = nucleon]
    /\ UNCHANGED <<journal, config, megastring, request_timestamps, request_cache, now,
                   last, seen, lock,
                   miner, threads, chain, stream>>

\* line 29: async with self.lock
Acquire(c) ==
    /\ pc[c] = "acquire"
    /\ LockFree(lock)
    /\ lock' = c
    /\ pc' = [pc EXCEPT ![c] = "check"]
    /\ UNCHANGED <<journal, config, megastring, request_timestamps, request_cache, now,
                   last, seen, local,
                   miner, threads, chain, stream>>

\* lines 30-37: the key, the current block and the membership test
Check(c) ==
    LET key == RequestKey(local[c].nucleon)
        alone == is_request_in_cache(config, megastring, request_cache,
                                     local[c].nucleon)
    IN  /\ pc[c] = "check"
        /\ local' = [local EXCEPT ![c].request_key = key,
                                  ![c].current_block = megastring.block,
                                  ![c].should_blacklist =
                                      key \in DOMAIN request_cache,
                                  ![c].alone_dup = alone.should_blacklist,
                                  ![c].alone_cache = alone.cache]
        /\ pc' = [pc EXCEPT ![c] = IF key \in DOMAIN request_cache
                                   THEN "sweep" ELSE "insert"]
        /\ UNCHANGED <<journal, config, megastring, request_timestamps, request_cache,
                       now, last, seen, lock,
                       miner, threads, chain, stream>>

\* lines 39-41: the insertion
Insert(c) ==
    /\ pc[c] = "insert"
    /\ request_cache' =
          [k \in (DOMAIN request_cache) \cup {local[c].request_key} |->
              IF k = local[c].request_key THEN local[c].current_block
              ELSE request_cache[k]]
    /\ pc' = [pc EXCEPT ![c] = "sweep"]
    /\ UNCHANGED <<journal, config, megastring, request_timestamps, now, last, seen,
                   lock, local,
                   miner, threads, chain, stream>>

\* lines 44-53: the sanitising loops
Sweep(c) ==
    /\ pc[c] = "sweep"
    /\ request_cache' = Sanitize(config, request_cache, local[c].current_block)
    /\ pc' = [pc EXCEPT ![c] = "release"]
    /\ UNCHANGED <<journal, config, megastring, request_timestamps, now, last, seen,
                   lock, local,
                   miner, threads, chain, stream>>

\* the end of the async with block, and line 55
Release(c) ==
    /\ pc[c] = "release"
    /\ lock' = NoHolder
    /\ pc' = [pc EXCEPT ![c] = "done"]
    /\ UNCHANGED <<journal, config, megastring, request_timestamps, request_cache, now,
                   last, seen, local,
                   miner, threads, chain, stream>>

\* the requests of one caller, one per payload
ConcRequests ==
    {r \in Requests : r.hotkey = "hk1" /\ r.roles[1] = "user"}

NextConc ==
    \/ (megastring.block < MaxConcBlock /\ SyncMegastring)
    \/ \E c \in Callers, nucleon \in ConcRequests : Call(c, nucleon)
    \/ \E c \in Callers : Acquire(c)
    \/ \E c \in Callers : Check(c)
    \/ \E c \in Callers : Insert(c)
    \/ \E c \in Callers : Sweep(c)
    \/ \E c \in Callers : Release(c)

SpecConc == InitConc /\ [][NextConc]_vars

\* no entry inserted so far can have expired
NoExpiry == megastring.block <= config.request_cache_block_span

\* C9: each call's check-insert-sweep takes effect as one atomic step: at
\* its end the call returns, and the cache is, what the call run alone would
\* have given; of the calls carrying one fingerprint that was not cached
\* exactly one reports not-duplicate, and no call's entry is lost.
C9_CheckInsertSweepAtomic ==
    /\ \A c \in Callers :
          pc[c] = "release" =>
              /\ local[c].should_blacklist = local[c].alone_dup
              /\ request_cache = local[c].alone_cache
    /\ ((\A c \in Callers : pc[c] = "done") /\ NoExpiry) =>
          \A c \in Callers :
              /\ Cardinality({d \in Callers :
                     /\ local[d].request_key = local[c].request_key
                     /\ ~local[d].should_blacklist}) = 1
              /\ local[c].request_key \in DOMAIN request_cache

\* a call waits for the lock while another call with the same fingerprint
\* holds it and has inserted the fingerprint
C9_Witness ==
    /\ NoExpiry
    /\ \E c, d \in Callers :
          /\ pc[c] = "acquire"
          /\ lock = d
          /\ pc[d] = "sweep"
          /\ ~local[d].should_blacklist
          /\ RequestKey(local[c].nucleon) = local[d].request_key

----------------------------------------------------------------------------
(* Concurrent default_priority calls of one caller: SpecTrack.
   record_request_timestamps takes no lock, so the calls interleave between
   its statements. *)

TrackHistLens == {2, LookBack}

InitTrack ==
    /\ config \in {c \in Configs : /\ c.whitelist = {}
                                   /\ c.blacklist = {}
                                   /\ ~c.force_validator_permit
                                   /\ ~c.allow_non_registered
                                   /\ ~c.wandb_on
                                   /\ ~c.use_request_cache
                                   /\ c.request_cache_block_span = 0
                                   /\ c.priority_default = 0
                                   /\ c.time_stake_multiplicate = 1
                                   /\ c.len_request_timestamps
                                          \in TrackHistLens}
    /\ megastring \in {m \in SnapshotsAt(0) : /\ m.hotkeys = <<"hk1">>
                                              /\ m.S[1] = 1
                                              /\ m.validator_permit[1]}
    /\ request_timestamps = NoTimestamps
    /\ now = StartTime
    /\ last = NoCall
    /\ Quiet

\* default_priority(self, nucleon) is called for a request of hk1, which is
\* registered (lines 40-50)
ScoreCall(c) ==
    /\ pc[c] = "idle"
    /\ pc' = [pc EXCEPT ![c] = "lookup"]
    /\ local' = [local EXCEPT ![c].nucleon.hotkey = "hk1"]
    /\ UNCHANGED <<journal, config, megastring, request_timestamps,
                   request_cache, now, last, seen, lock,
                   miner, threads, chain, stream>>

\* lines 53-61: the history is looked up and its 10th entry from the end
\* read (IndexError when it has fewer)
Lookup(c) ==
    LET hk == local[c].nucleon.hotkey
        has == hk \in DOMAIN request_timestamps
    IN  /\ pc[c] = "lookup"
        /\ local' = [local EXCEPT ![c].observed =
                        IF has THEN Len(request_timestamps[hk]) ELSE -1]
        /\ pc' = [pc EXCEPT ![c] =
                     IF has /\ Len(request_timestamps[hk]) < LookBack
                     THEN "failed" ELSE "test"]
        /\ UNCHANGED <<journal, config, megastring, request_timestamps,
                       request_cache, now, last, seen, lock,
                       miner, threads, chain, stream>>

\* line 27: if nucleon.boson.hotkey not in self.request_timestamps
TestHistory(c) ==
    /\ pc[c] = "test"
    /\ pc' = [pc EXCEPT ![c] =
                 IF local[c].nucleon.hotkey \in DOMAIN request_timestamps
                 THEN "append" ELSE "create"]
    /\ UNCHANGED <<journal, config, megastring, request_timestamps,
                   request_cache, now, last, seen, lock, local,
                   miner, threads, chain, stream>>

\* line 28: self.request_timestamps[hotkey] = [0] * timestamp_length
CreateHistory(c) ==
    LET hk == local[c].nucleon.hotkey
    IN  /\ pc[c] = "create"
        /\ request_timestamps' =
               [k \in (DOMAIN request_timestamps) \cup {hk} |->
                   IF k = hk THEN Zeros(config.len_request_timestamps)
                   ELSE request_timestamps[k]]
        /\ pc' = [pc EXCEPT ![c] = "append"]
        /\ UNCHANGED <<journal, config, megastring, request_cache, now, last,
                       seen, lock, local,
                       miner, threads, chain, stream>>

\* line 30: self.request_timestamps[hotkey].append(time.time())
AppendTime(c) ==
    LET hk == local[c].nucleon.hotkey
    IN  /\ pc[c] = "append"
        /\ request_timestamps' =
               [request_timestamps EXCEPT ![hk] = Append(@, now)]
        /\ journal' = [journal EXCEPT !.recorded[hk] = Append(@, now)]
        /\ pc' = [pc EXCEPT ![c] = "slice"]
        /\ UNCHANGED <<config, megastring, request_cache, now, last, seen,
                       lock, local,
                       miner, threads, chain, stream>>

\* lines 31-33, right-hand side: the slice [-timestamp_length:] of the list
SliceHistory(c) ==
    LET hk == local[c].nucleon.hotkey
    IN  /\ pc[c] = "slice"
        /\ local' = [local EXCEPT ![c].kept =
                        LastN(request_timestamps[hk],
                              config.len_request_timestamps)]
        /\ pc' = [pc EXCEPT ![c] = "store"]
        /\ UNCHANGED <<journal, config, megastring, request_timestamps,
                       request_cache, now, last, seen, lock,
                       miner, threads, chain, stream>>

\* line 31, the assignment: self.request_timestamps[hotkey] = the slice
StoreHistory(c) ==
    LET hk == local[c].nucleon.hotkey
    IN  /\ pc[c] = "store"
        /\ request_timestamps' =
               [request_timestamps EXCEPT ![hk] = local[c].kept]
        /\ pc' = [pc EXCEPT ![c] = "done"]
        /\ UNCHANGED <<journal, config, megastring, request_cache, now, last,
                       seen, lock, local,
                       miner, threads, chain, stream>>

NextTrack ==
    \/ Tick
    \/ \E c \in Callers : ScoreCall(c)
    \/ \E c \in Callers : Lookup(c)
    \/ \E c \in Callers : TestHistory(c)
    \/ \E c \in Callers : CreateHistory(c)
    \/ \E c \in Callers : AppendTime(c)
    \/ \E c \in Callers : SliceHistory(c)
    \/ \E c \in Callers : StoreHistory(c)

SpecTrack == InitTrack /\ [][NextTrack]_vars

\* the number of entries of xs equal to x
Count(xs, x) == Cardinality({i \in DOMAIN xs : xs[i] = x})

\* no call is between its first and its last statement
NoCallInFlight == \A c \in Callers : pc[c] \in {"idle", "done", "failed"}

\* C28: concurrent records of one caller take effect one at a time: once k
\* <= historyLength records are complete the history holds each of the k
\* recorded times as often as it was recorded, and no call reads a history
\* whose length is not historyLength.
C28_RecordsTakeEffectAtomically ==
    /\ \A c \in Callers :
          local[c].observed \in {-1, config.len_request_timestamps}
    /\ \A hk \in Hotkeys :
          (/\ NoCallInFlight
           /\ journal.recorded[hk] # <<>>
           /\ Len(journal.recorded[hk]) <= config.len_request_timestamps) =>
              /\ hk \in DOMAIN request_timestamps
              /\ Len(request_timestamps[hk]) = config.len_request_timestamps
              /\ \A i \in DOMAIN journal.recorded[hk] :
                    Count(request_timestamps[hk], journal.recorded[hk][i])
                        = Count(journal.recorded[hk], journal.recorded[hk][i])

\* C28 where the calls do not overlap: at most one call has started and not
\* finished since the last complete one
C28_AtomicWithoutOverlap ==
    (/\ \A c \in Callers : pc[c] \in {"idle", "done"}
     /\ Cardinality({c \in Callers : pc[c] = "done"}) <= 1) =>
        C28_RecordsTakeEffectAtomically

\* two records of one caller are complete and a recorded time is missing
\* from the history
C28_WitnessLost ==
    /\ NoCallInFlight
    /\ Len(journal.recorded["hk1"]) = 2
    /\ \E i \in 1..2 :
          Count(request_timestamps["hk1"], journal.recorded["hk1"][i]) = 0

----------------------------------------------------------------------------
(* default_blacklist and default_priority while self.megastring is being
   replaced: SpecSwap. Each evaluation reads self.megastring once per
   statement; the replacement is the assignment of a freshly fetched
   snapshot by the thread that keeps the network state up to date. *)

\* hk1 at uid 2 with stake 3 and no permit; hk1 at uid 1 with stake 3 and no
\* permit; hk1 not registered
SwapSnapshots ==
    {[present |-> TRUE, block |-> 0, hotkeys |-> <<"own", "hk1">>,
      S |-> <<1, 3>>, validator_permit |-> <<TRUE, FALSE>>],
     [present |-> TRUE, block |-> 0, hotkeys |-> <<"hk1", "own">>,
      S |-> <<3, 1>>, validator_permit |-> <<FALSE, TRUE>>],
     [present |-> TRUE, block |-> 0, hotkeys |-> <<"own">>,
      S |-> <<1>>, validator_permit |-> <<TRUE>>]}

InitSwap ==
    /\ config \in {c \in Configs : /\ c.whitelist = {}
                                   /\ c.blacklist = {}
                                   /\ ~c.allow_non_registered
                                   /\ ~c.wandb_on
                                   /\ ~c.use_request_cache
                                   /\ c.request_cache_block_span = 0
                                   /\ c.priority_default = 2
                                   /\ c.time_stake_multiplicate = 1
                                   /\ c.len_request_timestamps = LookBack}
    /\ megastring \in SwapSnapshots
    /\ request_timestamps = NoTimestamps
    /\ now = StartTime
    /\ last = NoCall
    /\ Quiet

\* the snapshot is replaced by another one
ReplaceMegastring(m) ==
    /\ m # megastring
    /\ megastring' = m
    /\ local' = [c \in Callers |->
                    IF pc[c] = "idle" THEN local[c]
                    ELSE [local[c] EXCEPT !.during = @ \cup {m}]]
    /\ last' = NoCall
    /\ UNCHANGED <<journal, config, request_timestamps, request_cache, now,
                   seen, pc, lock,
                   miner, threads, chain, stream>>

\* the call of c ends: its outcome is kept in last
Finish(c, op, kind, exc, decision, value) ==
    /\ last' = [NoCall EXCEPT !.op = op, !.hotkey = local[c].nucleon.hotkey,
                              !.kind = kind, !.exc = exc,
                              !.decision = decision, !.priority = value,
                              !.tracker = request_timestamps,
                              !.during = local[c].during]
    /\ pc' = [pc EXCEPT ![c] = "idle"]
    /\ local' = [local EXCEPT ![c] = NoLocal]

\* the call of c goes on at statement next
Goto(c, next) ==
    /\ pc' = [pc EXCEPT ![c] = next]
    /\ UNCHANGED last

\* default_priority(self, nucleon) is called for a request of hk1
PriorityCall(c) ==
    /\ pc[c] = "idle"
    /\ Len(journal.recorded["hk1"]) < MaxServed
    /\ local' = [local EXCEPT ![c].nucleon.hotkey = "hk1",
                              ![c].during = {megastring}]
    /\ Goto(c, "line 41")
    /\ UNCHANGED <<journal, config, megastring, request_timestamps,
                   request_cache, now, seen, lock,
                   miner, threads, chain, stream>>

\* lines 40-46: registered is read from self.megastring
PriorityRegistered(c) ==
    /\ pc[c] = "line 41"
    /\ IF megastring.present /\ InHotkeys(megastring, local[c].nucleon.hotkey)
       THEN Goto(c, "line 49") /\ UNCHANGED local
       ELSE Finish(c, "default_priority", "return", "", NoDecision,
                   DefaultValue(config))
    /\ UNCHANGED <<journal, config, megastring, request_timestamps,
                   request_cache, now, seen, lock,
                   miner, threads, chain, stream>>

\* line 49: uid = self.megastring.hotkeys.index(hotkey)
PriorityIndex(c) ==
    /\ pc[c] = "line 49"
    /\ IF InHotkeys(megastring, local[c].nucleon.hotkey)
       THEN /\ local' = [local EXCEPT ![c].uid =
                            IndexOf(megastring, local[c].nucleon.hotkey)]
            /\ Goto(c, "line 50")
       ELSE Finish(c, "default_priority", "raise", "ValueError", NoDecision,
                   Rat(0, 1))
    /\ UNCHANGED <<journal, config, megastring, request_timestamps,
                   request_cache, now, seen, lock,
                   miner, threads, chain, stream>>

\* line 50: stake_amount = self.megastring.S[uid].item()
PriorityStake(c) ==
    /\ pc[c] = "line 50"
    /\ IF local[c].uid <= Len(megastring.S)
       THEN /\ local' = [local EXCEPT ![c].stake_amount =
                            megastring.S[local[c].uid]]
            /\ Goto(c, "line 53")
       ELSE Finish(c, "default_priority", "raise", "IndexError", NoDecision,
                   Rat(0, 1))
    /\ UNCHANGED <<journal, config, megastring, request_timestamps,
                   request_cache, now, seen, lock,
                   miner, threads, chain, stream>>

\* the snapshot a call has put together from its reads: the caller with the
\* stake read at line 50
AsRead(hk, stake_amount) ==
    [present |-> TRUE, block |-> 0, hotkeys |-> <<hk>>,
     S |-> <<stake_amount>>, validator_permit |-> <<TRUE>>]

\* lines 53-65: the priority from the stake read, and the record
PriorityScore(c) ==
    \E r \in {default_priority(config,
                               AsRead(local[c].nucleon.hotkey,
                                      local[c].stake_amount),
                               request_timestamps, now,
                               local[c].nucleon.hotkey)} :
        /\ pc[c] = "line 53"
        /\ request_timestamps' = r.timestamps
        /\ journal' = IF r.recorded
                      THEN [journal EXCEPT
                               !.recorded[local[c].nucleon.hotkey] =
                                   Append(@, now)]
                      ELSE journal
        /\ Finish(c, "default_priority", r.kind, r.exc, NoDecision,
                  r.priority)
        /\ UNCHANGED <<config, megastring, request_cache, now, seen, lock,
                       miner, threads, chain, stream>>

\* default_blacklist(self, nucleon) is called for a request of hk1
BlacklistCall(c) ==
    /\ pc[c] = "idle"
    /\ local' = [local EXCEPT ![c].nucleon.hotkey = "hk1",
                              ![c].during = {megastring}]
    /\ Goto(c, "line 60")
    /\ UNCHANGED <<journal, config, megastring, request_timestamps,
                   request_cache, now, seen, lock,
                   miner, threads, chain, stream>>

\* lines 60-73: the whitelist, the blacklist and the registration check
BlacklistRegistered(c) ==
    LET hk == local[c].nucleon.hotkey
        reject(text) == Finish(c, "default_blacklist", "return", "",
                               Decision(TRUE, Reason(text)), Rat(0, 1))
    IN  /\ pc[c] = "line 60"
        /\ IF IsWhitelisted(config, hk)
           THEN Finish(c, "default_blacklist", "return", "",
                       Decision(FALSE, Reason("whitelisted hotkey")),
                       Rat(0, 1))
           ELSE IF IsBlacklisted(config, hk)
           THEN reject("blacklisted hotkey")
           ELSE IF NotRegistered(config, megastring, hk)
           THEN reject("hotkey not registered")
           ELSE /\ Goto(c, IF config.force_validator_permit
                           THEN "line 77" ELSE "line 85")
                /\ UNCHANGED local
        /\ UNCHANGED <<journal, config, megastring, request_timestamps,
                       request_cache, now, seen, lock,
                       miner, threads, chain, stream>>

\* lines 77, 81-82: if hotkey in self.megastring.hotkeys
BlacklistMember(c) ==
    /\ pc[c] = "line 77"
    /\ IF ~megastring.present
       THEN Finish(c, "default_blacklist", "raise", "AttributeError",
                   Decision(FALSE, Reason("")), Rat(0, 1))
       ELSE IF InHotkeys(megastring, local[c].nucleon.hotkey)
       THEN Goto(c, "line 78") /\ UNCHANGED local
       ELSE Finish(c, "default_blacklist", "return", "",
                   Decision(TRUE, Reason(
                       "validator permit required, but hotkey not registered")),
                   Rat(0, 1))
    /\ UNCHANGED <<journal, config, megastring, request_timestamps,
                   request_cache, now, seen, lock,
                   miner, threads, chain, stream>>

\* line 78: uid = self.megastring.hotkeys.index(hotkey)
BlacklistIndex(c) ==
    /\ pc[c] = "line 78"
    /\ IF InHotkeys(megastring, local[c].nucleon.hotkey)
       THEN /\ local' = [local EXCEPT ![c].uid =
                            IndexOf(megastring, local[c].nucleon.hotkey)]
            /\ Goto(c, "line 79")
       ELSE Finish(c, "default_blacklist", "raise", "ValueError",
                   Decision(FALSE, Reason("")), Rat(0, 1))
    /\ UNCHANGED <<journal, config, megastring, request_timestamps,
                   request_cache, now, seen, lock,
                   miner, threads, chain, stream>>

\* lines 79-80: if not self.megastring.validator_permit[uid]
BlacklistPermit(c) ==
    /\ pc[c] = "line 79"
    /\ IF local[c].uid > Len(megastring.validator_permit)
       THEN Finish(c, "default_blacklist", "raise", "IndexError",
                   Decision(FALSE, Reason("")), Rat(0, 1))
       ELSE IF ~megastring.validator_permit[local[c].uid]
       THEN Finish(c, "default_blacklist", "return", "",
                   Decision(TRUE, Reason("validator permit required")),
                   Rat(0, 1))
       ELSE Goto(c, "line 85") /\ UNCHANGED local
    /\ UNCHANGED <<journal, config, megastring, request_timestamps,
                   request_cache, now, seen, lock,
                   miner, threads, chain, stream>>

\* lines 85-94: the rate limit, or "passed blacklist"
BlacklistRate(c) ==
    LET hk == local[c].nucleon.hotkey
    IN  /\ pc[c] = "line 85"
        /\ Finish(c, "default_blacklist", "return", "",
                  IF RateLimited(config, request_timestamps, now, hk)
                  THEN Decision(TRUE,
                                RateReason(hk, Len(request_timestamps[hk]),
                                           config.min_request_period))
                  ELSE Decision(FALSE, Reason("passed blacklist")),
                  Rat(0, 1))
        /\ UNCHANGED <<journal, config, megastring, request_timestamps,
                       request_cache, now, seen, lock,
                       miner, threads, chain, stream>>

NextSwap ==
    \/ \E m \in SwapSnapshots : ReplaceMegastring(m)
    \/ \E c \in Callers : PriorityCall(c)
    \/ \E c \in Callers : PriorityRegistered(c)
    \/ \E c \in Callers : PriorityIndex(c)
    \/ \E c \in Callers : PriorityStake(c)
    \/ \E c \in Callers : PriorityScore(c)
    \/ \E c \in Callers : BlacklistCall(c)
    \/ \E c \in Callers : BlacklistRegistered(c)
    \/ \E c \in Callers : BlacklistMember(c)
    \/ \E c \in Callers : BlacklistIndex(c)
    \/ \E c \in Callers : BlacklistPermit(c)
    \/ \E c \in Callers : BlacklistRate(c)

SpecSwap == InitSwap /\ [][NextSwap]_vars

\* the last call got what default_priority gives on the snapshot m alone
ScoredFrom(m) ==
    \E r \in {default_priority(config, m, last.tracker, now, last.hotkey)} :
        /\ r.kind = "return"
        /\ RatEq(last.priority, r.priority)

\* the last call got what default_blacklist gives on the snapshot m alone
DecidedFrom(m) ==
    \E r \in {default_blacklist(config, m, last.tracker, now, last.hotkey)} :
        /\ r.kind = "return"
        /\ last.decision = r.decision

\* C29: a default admission or default priority evaluation during which the
\* snapshot is replaced completes without error, and its result is the
\* result computed entirely from one of the snapshots held meanwhile.
C29_ToleratesReplacement ==
    /\ last.op = "default_priority" =>
          /\ last.kind = "return"
          /\ \E m \in last.during : ScoredFrom(m)
    /\ last.op = "default_blacklist" =>
          /\ last.kind = "return"
          /\ \E m \in last.during : DecidedFrom(m)

\* C29 for the evaluations during which the snapshot stayed the same
C29_SameWithoutReplacement ==
    Cardinality(last.during) <= 1 => C29_ToleratesReplacement

\* an evaluation has returned a result that neither of the two snapshots it
\* ran under gives
C29_WitnessMixed ==
    /\ last.op \in {"default_priority", "default_blacklist"}
    /\ last.kind = "return"
    /\ Cardinality(last.during) = 2
    /\ ~C29_ToleratesReplacement

\* an evaluation ran under one snapshot in which its caller is registered
C29_WitnessSteady ==
    /\ last.op \in {"default_priority", "default_blacklist"}
    /\ Cardinality(last.during) = 1
    /\ \A m \in last.during : InHotkeys(m, last.hotkey)
    /\ last.tracker # NoTimestamps

----------------------------------------------------------------------------
(* Default admission, default priority and the dedup check on one miner:
   SpecFrame *)

InitFrame ==
    /\ config \in {c \in Configs : /\ c.whitelist = {}
                                   /\ c.blacklist = {}
                                   /\ ~c.allow_non_registered
                                   /\ ~c.wandb_on
                                   /\ c.use_request_cache
                                   /\ c.request_cache_block_span = 1
                                   /\ c.priority_default = 0
                                   /\ c.time_stake_multiplicate = 1
                                   /\ c.len_request_timestamps = 2}
    /\ megastring = TwoCallerSnapshot
    /\ request_timestamps = NoTimestamps
    /\ now = StartTime
    /\ last = NoCall
    /\ Quiet

NextFrame ==
    \/ Tick
    \/ \E hk \in Hotkeys : DefaultBlacklist(hk)
    \/ \E hk \in Hotkeys : DefaultPriority(hk)
    \/ \E nucleon \in Requests : IsRequestInCache(nucleon)

SpecFrame == InitFrame /\ [][NextFrame]_vars

\* whether hk has a history in the tracker ts, and that history
HistoryOf(ts, hk) ==
    IF hk \in DOMAIN ts THEN <<TRUE, ts[hk]>> ELSE <<FALSE, <<>>>>

\* C31: default admission leaves the histories, the dedup cache, the
\* snapshot and the configuration as they were; default priority and the
\* dedup check leave the snapshot and the configuration as they were; the
\* history of a caller changes only in a default_priority call for a request
\* of that caller.
C31_FrameEffects ==
    [][/\ last'.op = "default_blacklist" =>
              UNCHANGED <<request_timestamps, request_cache, megastring,
                          config>>
       /\ last'.op \in {"default_priority", "is_request_in_cache"} =>
              UNCHANGED <<megastring, config>>
       /\ \A hk \in Hotkeys :
              HistoryOf(request_timestamps', hk)
                  # HistoryOf(request_timestamps, hk) =>
                  /\ last'.op = "default_priority"
                  /\ last'.hotkey = hk]_vars

\* a request has been scored and recorded while the other caller had a
\* history and the dedup cache an entry
C31_Witness ==
    /\ last.op = "default_priority"
    /\ last.kind = "return"
    /\ \A hk \in Hotkeys : hk \in DOMAIN request_timestamps
    /\ request_cache # NoCache

\* default admission has run with a history and a cache entry in place
C31_WitnessAdmission ==
    /\ last.op = "default_blacklist"
    /\ request_timestamps # NoTimestamps
    /\ request_cache # NoCache

----------------------------------------------------------------------------
(* model/lib/run.py: run, and src/lib/miner.py: run_in_background_thread,
   stop_run_thread: SpecRun *)

\* --miner.blocks_per_epoch, scaled down (the shipped default is 100)
blocks_per_epoch == 1

Threads == 1..MaxThreads

\* the threads that are executing run(self)
Alive == {t \in Threads : threads[t].pc \notin {"unborn", "returned"}}

\* self.nbnetwork.megastring(netuid, lite, block): the network state at
\* block b
MegastringAt(b) == [megastring EXCEPT !.block = b]

InitRun ==
    /\ config \in {c \in Configs : /\ c.whitelist = {}
                                   /\ c.blacklist = {}
                                   /\ ~c.force_validator_permit
                                   /\ ~c.allow_non_registered
                                   /\ ~c.use_request_cache
                                   /\ c.request_cache_block_span = 0
                                   /\ c.priority_default = 0
                                   /\ c.time_stake_multiplicate = 1
                                   /\ c.len_request_timestamps = 1}
    /\ megastring \in {m \in SnapshotsAt(0) : /\ m.hotkeys = <<"hk1">>
                                              /\ m.S[1] = 1
                                              /\ m.validator_permit[1]}
    /\ request_timestamps = NoTimestamps
    /\ now = StartTime
    /\ last = NoCall
    /\ Quiet

\* the chain produces a block
NewBlock ==
    /\ chain < MaxBlock
    /\ chain' = chain + 1
    /\ UNCHANGED <<config, megastring, request_timestamps, request_cache,
                   now, last, seen, pc, lock, local, journal, miner,
                   threads, stream>>

\* miner.py lines 279-290 (and __enter__)
run_in_background_thread ==
    /\ ~miner.joining
    /\ \E t \in Threads :
          /\ threads[t].pc = "unborn"
          /\ \A u \in Threads : u < t => threads[u].pc # "unborn"
          /\ IF ~miner.is_running
             THEN /\ miner' = [miner EXCEPT !.should_exit = FALSE,
                                            !.thread = t,
                                            !.is_running = TRUE]
                  /\ threads' = [threads EXCEPT ![t].pc = "line 51"]
             ELSE UNCHANGED <<miner, threads>>
    /\ UNCHANGED <<config, megastring, request_timestamps, request_cache,
                   now, last, seen, pc, lock, local, journal, chain, stream>>

\* miner.py lines 296-299 (and __exit__): up to the call of join
stop_run_thread ==
    /\ ~miner.joining
    /\ IF miner.is_running
       THEN miner' = [miner EXCEPT !.should_exit = TRUE, !.joining = TRUE]
       ELSE UNCHANGED miner
    /\ UNCHANGED <<config, megastring, request_timestamps, request_cache,
                   now, last, seen, pc, lock, local, journal, threads,
                   chain, stream>>

\* miner.py lines 299-301: self.thread.join(5) returns, because the thread
\* has ended or because 5 seconds have passed
JoinReturns ==
    /\ miner.joining
    /\ miner' = [miner EXCEPT !.is_running = FALSE, !.joining = FALSE]
    /\ UNCHANGED <<config, megastring, request_timestamps, request_cache,
                   now, last, seen, pc, lock, local, journal, threads,
                   chain, stream>>

\* run.py lines 50-78: registration check, serve, start, the first block
RunStart(t) ==
    /\ threads[t].pc = "line 51"
    /\ miner' = [miner EXCEPT !.last_epoch_block = chain]
    /\ threads' = [threads EXCEPT ![t].pc = "line 80"]
    /\ UNCHANGED <<config, megastring, request_timestamps, request_cache,
                   now, last, seen, pc, lock, local, journal, chain, stream>>

\* run.py lines 80-84: the test of the main loop, and the block query
RunWhile(t) ==
    /\ threads[t].pc = "line 80"
    /\ threads' = IF miner.should_exit
                  THEN [threads EXCEPT ![t].pc = "returned",
                                       ![t].saw_exit = TRUE]
                  ELSE [threads EXCEPT ![t].pc = "line 85",
                                       ![t].saw_exit = FALSE,
                                       ![t].current_block = chain]
    /\ UNCHANGED <<config, megastring, request_timestamps, request_cache,
                   now, last, seen, pc, lock, local, journal, miner, chain,
                   stream>>

\* run.py lines 85-95: one test of the wait loop and, when it holds, one
\* pass through its body
RunWait(t) ==
    /\ threads[t].pc = "line 85"
    /\ threads' =
          IF threads[t].current_block - miner.last_epoch_block
                 < blocks_per_epoch
          THEN [threads EXCEPT
                   ![t].current_block = chain,
                   ![t].saw_exit = miner.should_exit,
                   ![t].pc = IF miner.should_exit THEN "line 98"
                             ELSE "line 85"]
          ELSE [threads EXCEPT ![t].pc = "line 98"]
    /\ UNCHANGED <<config, megastring, request_timestamps, request_cache,
                   now, last, seen, pc, lock, local, journal, miner, chain,
                   stream>>

\* run.py lines 98-104: the epoch block and the snapshot are fetched; the
\* snapshot is assigned to the local megastring
RunFetch(t) ==
    /\ threads[t].pc = "line 98"
    /\ miner' = [miner EXCEPT !.last_epoch_block = chain]
    /\ threads' = [threads EXCEPT
                      ![t].megastring = MegastringAt(chain),
                      ![t].worked_after_exit = @ \/ threads[t].saw_exit,
                      ![t].pc = "line 105"]
    /\ UNCHANGED <<config, megastring, request_timestamps, request_cache,
                   now, last, seen, pc, lock, local, journal, chain, stream>>

\* run.py lines 105-117: the log line
RunLog(t) ==
    /\ threads[t].pc = "line 105"
    /\ threads' = [threads EXCEPT ![t].pc = "line 120"]
    /\ UNCHANGED <<config, megastring, request_timestamps, request_cache,
                   now, last, seen, pc, lock, local, journal, miner, chain,
                   stream>>

\* run.py lines 120-128: set_weights and the step counter
RunSetWeights(t) ==
    /\ threads[t].pc = "line 120"
    /\ threads' = [threads EXCEPT
                      ![t].step = @ + 1,
                      ![t].worked_after_exit = @ \/ threads[t].saw_exit,
                      ![t].pc = "line 80"]
    /\ UNCHANGED <<config, megastring, request_timestamps, request_cache,
                   now, last, seen, pc, lock, local, journal, miner, chain,
                   stream>>

\* a step inside the try block raises an Exception: the handler of lines
\* 137-138 logs it and run returns
RunRaise(t) ==
    /\ threads[t].pc \in {"line 85", "line 98", "line 105", "line 120"}
    /\ threads' = [threads EXCEPT ![t].pc = "returned", ![t].failed = TRUE]
    /\ UNCHANGED <<config, megastring, request_timestamps, request_cache,
                   now, last, seen, pc, lock, local, journal, miner, chain,
                   stream>>

NextRun ==
    \/ NewBlock
    \/ run_in_background_thread
    \/ stop_run_thread
    \/ JoinReturns
    \/ \E t \in Threads : RunStart(t)
    \/ \E t \in Threads : RunWhile(t)
    \/ \E t \in Threads : RunWait(t)
    \/ \E t \in Threads : RunFetch(t)
    \/ \E t \in Threads : RunLog(t)
    \/ \E t \in Threads : RunSetWeights(t)
    \/ \E t \in Threads : RunRaise(t)

SpecRun == InitRun /\ [][NextRun]_vars

\* C33: once the run loop has fetched the network state of an epoch,
\* self.megastring, which admission, scoring and the dedup cache read, is
\* that state, block height included.
C33_SnapshotIsLatestFetch ==
    \A t \in Threads :
        threads[t].pc \in {"line 105", "line 120"} =>
            megastring = threads[t].megastring

\* what run does instead: self.megastring is never assigned
C33_SnapshotNeverReplaced == [][megastring' = megastring]_vars

\* an epoch has fetched the state at a later block and self.megastring is
\* still the snapshot of construction
C33_WitnessStale ==
    \E t \in Threads :
        /\ threads[t].pc = "line 120"
        /\ threads[t].megastring.block = MaxBlock
        /\ megastring.block = 0

\* C34: an error raised by a step inside the run loop does not end the
\* loop: run returns only after reading should_exit as True.
C34_LoopSurvivesErrors ==
    \A t \in Threads : threads[t].pc = "returned" => threads[t].saw_exit

\* run returns only after reading should_exit as True or after an error
C34_ReturnsOnExitOrError ==
    \A t \in Threads :
        threads[t].pc = "returned" =>
            (threads[t].saw_exit \/ threads[t].failed)

\* the run loop has ended by an error after a complete epoch, should_exit
\* not being set
C34_WitnessEnded ==
    \E t \in Threads :
        /\ threads[t].pc = "returned"
        /\ threads[t].failed
        /\ threads[t].step >= 1
        /\ ~miner.should_exit

\* C35, its safety half: from the moment the run loop reads should_exit as
\* True it fetches no snapshot and sets no weights.
C35_NoWorkAfterExitRead ==
    \A t \in Threads : ~threads[t].worked_after_exit

\* C35, its termination half: a run loop that is not ended by an error
\* returns once should_exit stays True
C35_TerminatesOnExit ==
    \A t \in Threads :
        []<>(\/ ~miner.should_exit
             \/ threads[t].pc \in {"unborn", "returned"})

\* the steps of the run loop are taken as long as the thread lives
RunFair ==
    \A t \in Threads :
        /\ WF_vars(RunStart(t))
        /\ WF_vars(RunWhile(t))
        /\ WF_vars(RunWait(t))
        /\ WF_vars(RunFetch(t))
        /\ WF_vars(RunLog(t))
        /\ WF_vars(RunSetWeights(t))

SpecRunFair == SpecRun /\ RunFair

\* the wait loop was left by the break of line 95 and the epoch went on to
\* fetch the snapshot and set the weights
C35_WitnessWorkAfterBreak ==
    \E t \in Threads :
        /\ threads[t].pc = "line 80"
        /\ threads[t].saw_exit
        /\ threads[t].worked_after_exit
        /\ miner.should_exit

\* C36: outside stop_run_thread, at most one thread is executing run, and
\* is_running is True exactly when one is.
C36_OneRunThread ==
    ~miner.joining =>
        /\ Cardinality(Alive) <= 1
        /\ miner.is_running <=> Alive # {}

\* two threads are executing the run loop, the first having been stopped
C36_WitnessTwoThreads ==
    /\ ~miner.joining
    /\ Cardinality(Alive) = 2
    /\ \A t \in Threads : ~threads[t].failed

\* stop_run_thread has returned while the thread it stopped is executing
\* the run loop
C36_WitnessStoppedButAlive ==
    /\ ~miner.joining
    /\ ~miner.is_running
    /\ miner.should_exit
    /\ miner.thread \in Alive

----------------------------------------------------------------------------
(* Requests of one caller whose admission and scoring interleave:
   SpecInterleave. The fermion calls Miner.blacklist and later
   Miner.priority for each request; other requests run in between. *)

InitInterleave ==
    /\ config \in {c \in Configs : /\ c.whitelist = {}
                                   /\ c.blacklist = {}
                                   /\ ~c.force_validator_permit
                                   /\ ~c.allow_non_registered
                                   /\ ~c.wandb_on
                                   /\ ~c.use_request_cache
                                   /\ c.request_cache_block_span = 0
                                   /\ c.priority_default = 0
                                   /\ c.time_stake_multiplicate = 1
                                   /\ c.len_request_timestamps = LookBack}
    /\ megastring \in {m \in SnapshotsAt(0) : /\ m.hotkeys = <<"hk1">>
                                              /\ m.S[1] = 1
                                              /\ m.validator_permit[1]}
    /\ request_timestamps = NoTimestamps
    /\ now = StartTime
    /\ last = NoCall
    /\ Quiet

\* Miner.blacklist for a request of hk1 (miner.py line 246)
Admit(c) ==
    \E b \in {blacklist(config, megastring, request_timestamps, now, "hk1",
                         BlacklistFuncs.not_implemented, FALSE)} :
        LET admitted == b.kind = "return" /\ ~Truthy(b.does_blacklist)
        IN  /\ pc[c] = "idle"
            /\ Len(journal.accepted["hk1"]) < MaxServed
            /\ pc' = [pc EXCEPT ![c] = IF admitted THEN "admitted"
                                       ELSE "idle"]
            /\ local' = [local EXCEPT ![c].nucleon.hotkey = "hk1"]
            /\ journal' = IF admitted
                          THEN [journal EXCEPT
                                   !.accepted["hk1"] = Append(@, now)]
                          ELSE journal
            /\ last' = [NoCall EXCEPT
                          !.op = "blacklist", !.hotkey = "hk1",
                          !.kind = b.kind, !.exc = b.exc,
                          !.decision = Decision(b.does_blacklist.b,
                                                b.reason.s),
                          !.admitted = admitted]
            /\ UNCHANGED <<config, megastring, request_timestamps,
                           request_cache, now, seen, lock, miner, threads,
                           chain, stream>>

\* Miner.priority for the admitted request of c (miner.py line 269)
Score(c) ==
    \E p \in {priority(config, megastring, request_timestamps, now,
                        local[c].nucleon.hotkey,
                        PriorityFuncs.not_implemented)} :
        /\ pc[c] = "admitted"
        /\ pc' = [pc EXCEPT ![c] = "idle"]
        /\ local' = [local EXCEPT ![c] = NoLocal]
        /\ request_timestamps' = p.timestamps
        /\ journal' = [journal EXCEPT
                          !.recorded[local[c].nucleon.hotkey] =
                              @ \o Times(now, p.recorded)]
        /\ last' = [NoCall EXCEPT
                      !.op = "priority", !.hotkey = local[c].nucleon.hotkey,
                      !.kind = p.kind, !.exc = p.exc,
                      !.priority = p.priority]
        /\ UNCHANGED <<config, megastring, request_cache, now, seen, lock,
                       miner, threads, chain, stream>>

NextInterleave ==
    \/ Tick
    \/ \E c \in Callers : Admit(c)
    \/ \E c \in Callers : Score(c)

SpecInterleave == InitInterleave /\ [][NextInterleave]_vars

\* C37: when admissions and scorings of the requests of one registered,
\* non-whitelisted caller interleave, at most len_request_timestamps of its
\* requests are admitted within any window shorter than the minimum request
\* period.
C37_InterleavedAtMostHistoryLength ==
    \A hk \in Hotkeys \ config.whitelist :
        Registered(megastring, hk) =>
            AtMostPerWindow(hk, config.len_request_timestamps)

\* two requests were admitted while the history had one zero left, and both
\* have been scored: more requests than the history length were admitted in
\* one window
C37_WitnessOverAdmitted ==
    /\ \A c \in Callers : pc[c] = "idle"
    /\ Len(journal.accepted["hk1"]) = Len(journal.recorded["hk1"])
    /\ ~AtMostPerWindow("hk1", config.len_request_timestamps)

-----------------------------------------------------------------------------
(* The streaming miner: StreamingTemplateMiner.prompt._prompt,
   streaming_template/miner.py lines 113-141 *)

\* the longest token sequence streamed
MaxTokens == 6

\* the token ids of the vocabulary
TokenIds == {1, 2}

\* the token sequences of at most n tokens
TokenSeqs(n) == UNION {[1..k -> TokenIds] : k \in 0..n}

\* tokenizer.decode(id): the string of a token, as its characters
Decode(id) == IF id = 1 THEN <<"a">> ELSE <<"b", "e-acute">>

\* the UTF-8 bytes of a character
Utf8(ch) ==
    CASE ch = "a" -> <<97>>
      [] ch = "b" -> <<98>>
      [] ch = "e-acute" -> <<195, 169>>

\* str.encode("utf-8")
RECURSIVE Encode(_)
Encode(str) ==
    IF str = <<>> THEN <<>> ELSE Utf8(Head(str)) \o Encode(Tail(str))

\* "".join(buffer)
RECURSIVE Join(_)
Join(buffer) ==
    IF buffer = <<>> THEN <<>> ELSE Head(buffer) \o Join(Tail(buffer))

\* input_ids.squeeze() of the 1 x n tensor of the tokenizer: every dimension
\* of size one is dropped, so one token leaves a tensor of no dimension
Squeeze(ids) == [dim |-> IF Len(ids) = 1 THEN 0 ELSE 1, ids |-> ids]

\* N, the number of tokens sent at a time
N == 3

\* the message passed to send
Body(joined_buffer, more_body) ==
    [type |-> "http.response.body", body |-> Encode(joined_buffer),
     more_body |-> more_body]

InitStream ==
    /\ config \in {c \in Configs : /\ c.whitelist = {}
                                   /\ c.blacklist = {}
                                   /\ ~c.force_validator_permit
                                   /\ ~c.allow_non_registered
                                   /\ ~c.use_request_cache
                                   /\ ~c.wandb_on
                                   /\ c.request_cache_block_span = 0
                                   /\ c.min_request_period = 1
                                   /\ c.priority_default = 0
                                   /\ c.time_stake_multiplicate = 1
                                   /\ c.len_request_timestamps = 1}
    /\ megastring = NoSnapshot
    /\ request_timestamps = NoTimestamps
    /\ now = StartTime
    /\ last = NoCall
    /\ miner = NoMiner
    /\ threads = [t \in 1..MaxThreads |-> NoThread]
    /\ chain = 0
    /\ journal = NoJournal
    /\ request_cache = NoCache
    /\ seen = NoCache
    /\ pc = [c \in 1..MaxCallers |-> "idle"]
    /\ lock = NoHolder
    /\ local = [c \in 1..MaxCallers |-> NoLocal]
    /\ \E ids \in TokenSeqs(MaxTokens) :
          stream = [NoStream EXCEPT !.pc = "line 113", !.input_ids = ids]

\* lines 113-116: the tensor is squeezed and model(input_ids) builds the
\* generator, which takes iter() of the tensor at once; a tensor of no
\* dimension cannot be iterated (TypeError)
PromptTokenize ==
    /\ stream.pc = "line 113"
    /\ stream' = IF Squeeze(stream.input_ids).dim = 0
                 THEN [stream EXCEPT !.pc = "raised", !.exc = "TypeError"]
                 ELSE [stream EXCEPT !.pc = "line 116", !.next = 1,
                                     !.buffer = <<>>]
    /\ UNCHANGED <<config, megastring, request_timestamps, request_cache,
                   now, last, seen, pc, lock, local, journal, miner,
                   threads, chain>>

\* lines 116-129: one iteration of the loop
PromptToken ==
    /\ stream.pc = "line 116"
    /\ stream.next <= Len(stream.input_ids)
    /\ LET buffer == Append(stream.buffer,
                            Decode(stream.input_ids[stream.next]))
       IN  stream' =
               IF Len(buffer) = N
               THEN [stream EXCEPT
                        !.next = @ + 1,
                        !.sent = Append(@, Body(Join(buffer), TRUE)),
                        !.buffer = <<>>]
               ELSE [stream EXCEPT !.next = @ + 1, !.buffer = buffer]
    /\ UNCHANGED <<config, megastring, request_timestamps, request_cache,
                   now, last, seen, pc, lock, local, journal, miner,
                   threads, chain>>

\* lines 131-141: the loop is over; what is left in the buffer is sent
PromptRemaining ==
    /\ stream.pc = "line 116"
    /\ stream.next > Len(stream.input_ids)
    /\ stream' =
           IF stream.buffer # <<>>
           THEN [stream EXCEPT
                    !.pc = "returned",
                    !.sent = Append(@, Body(Join(stream.buffer), FALSE)),
                    !.buffer = <<>>]
           ELSE [stream EXCEPT !.pc = "returned"]
    /\ UNCHANGED <<config, megastring, request_timestamps, request_cache,
                   now, last, seen, pc, lock, local, journal, miner,
                   threads, chain>>

NextStream ==
    \/ PromptTokenize
    \/ PromptToken
    \/ PromptRemaining

SpecStream == InitStream /\ [][NextStream]_vars

\* the streaming response is over: _prompt returned or raised
StreamEnded == stream.pc \in {"returned", "raised"}

\* the decoded tokens ids[from..to], joined and encoded
RECURSIVE DecodedBytes(_, _, _)
DecodedBytes(ids, from, to) ==
    IF from > to THEN <<>>
    ELSE Encode(Decode(ids[from])) \o DecodedBytes(ids, from + 1, to)

\* the bodies of the messages msgs, one after the other
RECURSIVE Concatenated(_)
Concatenated(msgs) ==
    IF msgs = <<>> THEN <<>>
    ELSE Head(msgs).body \o Concatenated(Tail(msgs))

\* the messages of msgs that carry bytes
CarryingBytes(msgs) == SelectSeq(msgs, LAMBDA m : m.body # <<>>)

\* the number of groups of 3 of n tokens, the last possibly shorter
GroupsOfThree(n) == (n + 2) \div 3

\* the messages that carry bytes are the tokens in order in groups of 3
ChunksAreGroupsOfThree ==
    LET n == Len(stream.input_ids)
        chunks == CarryingBytes(stream.sent)
    IN  /\ Len(chunks) = GroupsOfThree(n)
        /\ \A i \in 1..Len(chunks) :
              chunks[i].body =
                  DecodedBytes(stream.input_ids, 3 * (i - 1) + 1,
                               IF 3 * i < n THEN 3 * i ELSE n)

\* exactly one message carries more_body = False, and it is the last one
EndsWithOneFinalMessage ==
    /\ stream.sent # <<>>
    /\ \A i \in 1..Len(stream.sent) :
          stream.sent[i].more_body = (i < Len(stream.sent))

\* C40: for every input token sequence the chunks sent are the tokens in
\* order in groups of 3 (the last group possibly shorter), their
\* concatenation is the whole decoded input, and the stream ends with
\* exactly one final message with more_body = False, also when the number of
\* tokens is a multiple of 3 or zero.
C40_ChunksOfThreeAndOneFinalMessage ==
    StreamEnded =>
        /\ ChunksAreGroupsOfThree
        /\ Concatenated(stream.sent) =
               DecodedBytes(stream.input_ids, 1, Len(stream.input_ids))
        /\ EndsWithOneFinalMessage

\* C40 where the code keeps it: when _prompt returns, the chunks are the
\* tokens in order in groups of 3 and make up the whole decoded input, and
\* there is a final message, the last one, exactly when the number of
\* tokens is not a multiple of 3
C40_ChunksOfThreeFinalOnlyWithRemainder ==
    stream.pc = "returned" =>
        /\ ChunksAreGroupsOfThree
        /\ Concatenated(stream.sent) =
               DecodedBytes(stream.input_ids, 1, Len(stream.input_ids))
        /\ \A i \in 1..Len(stream.sent) :
              stream.sent[i].more_body =
                  ~(i = Len(stream.sent)
                    /\ Len(stream.input_ids) % 3 # 0)

\* a stream of a positive multiple of 3 tokens has ended with every message
\* saying that more follows
C40_WitnessMultipleOfThree ==
    /\ stream.pc = "returned"
    /\ Len(stream.input_ids) > 0
    /\ Len(stream.input_ids) % 3 = 0
    /\ stream.sent # <<>>
    /\ \A i \in 1..Len(stream.sent) : stream.sent[i].more_body

\* a stream of no token has ended without any message
C40_WitnessNoToken ==
    /\ stream.pc = "returned"
    /\ stream.input_ids = <<>>
    /\ stream.sent = <<>>

\* a stream of one token has raised before any message
C40_WitnessOneToken ==
    /\ stream.pc = "raised"
    /\ Len(stream.input_ids) = 1
    /\ stream.sent = <<>>

\* a stream of a number of tokens that is no multiple of 3 has ended with
\* one final message
C40_WitnessRemainder ==
    /\ stream.pc = "returned"
    /\ Len(stream.input_ids) % 3 = 2
    /\ Len(stream.sent) > 1
    /\ EndsWithOneFinalMessage

====
